---- MODULE Spec2Model ----
(***************************************************************************)
(* Railway crossing control system (src/api/server.py).                    *)
(*                                                                         *)
(* The state is the RailwaySystem instance: its list of RailwayCrossing    *)
(* objects, its global_state and statistics dictionaries, and the value    *)
(* the last process_command call returned.  The operations are             *)
(* RailwayCrossing.transition, RailwaySystem.process_command and one       *)
(* iteration of background_task (the scheduler tick).                      *)
(*                                                                         *)
(* Time.  The code reads the clock only as                                 *)
(*   (datetime.now() - crossing.last_state_change).total_seconds()         *)
(* and uses it only as  t >= 3, t >= 2  and  int(t).  The field            *)
(* time_in_state of a crossing is int(t), kept up to the largest value     *)
(* the code can tell apart in the crossing's state (DwellCap).  A          *)
(* transition sets it to 0 and the sleep that ends an iteration of         *)
(* background_task advances it; commands run between two iterations.  A    *)
(* state_history entry's timestamp is left out: nothing reads it.          *)
(*                                                                         *)
(* Numbers.  Speeds and distances are drawn from integers for which the    *)
(* float expressions of the code are exact (60, 100 and 200 km/h), and     *)
(* the weather multipliers are kept in tenths.                             *)
(*                                                                         *)
(* Left out: the log (SystemLogger), the texts of a response, the          *)
(* SimulationManager, and global_state['uptime'], a counter that a tick    *)
(* increments and nothing reads.                                           *)
(***************************************************************************)
EXTENDS Integers, Sequences, FiniteSets, TLC

VARIABLES crossings, global_state, statistics, response, call, threads

vars == <<crossings, global_state, statistics, response, call, threads>>

-----------------------------------------------------------------------------
(* Bounds of the model                                                     *)

\* cap on statistics.total_operations, the number of commands processed
MaxOps == 4

\* cap on operation_count when transition is called directly
MaxTransitions == 5

-----------------------------------------------------------------------------
(* Enumerations and tables *)

\* the number of crossings _initialize_crossings creates
NumCrossings == 4

CrossingState ==
    {"IDLE", "WARNING", "COUNTDOWN", "BARRIER_DOWN", "TRAIN_PASSING",
     "EMERGENCY", "MAINTENANCE"}

WeatherCondition == {"CLEAR", "RAIN", "FOG", "STORM"}

\* weather_multipliers, in tenths
weather_multipliers ==
    [w \in WeatherCondition |->
        CASE w = "CLEAR" -> 10
          [] w = "RAIN"  -> 13
          [] w = "FOG"   -> 15
          [] w = "STORM" -> 18]

\* an adjusted time that drops the fraction of the multiplier first
get_adjusted_time_WholeMultiplier(cr, base_time) ==
    base_time * (weather_multipliers[cr.weather] \div 10)

\* int(base_time * multiplier)
get_adjusted_time(cr, base_time) ==
    (base_time * weather_multipliers[cr.weather]) \div 10

\* a table that lets a crossing under maintenance be forced into EMERGENCY
valid_transitions_MaintenanceToEmergency ==
    [s \in CrossingState |->
        CASE s = "IDLE"          -> {"WARNING", "EMERGENCY", "MAINTENANCE"}
          [] s = "WARNING"       -> {"COUNTDOWN", "IDLE", "EMERGENCY"}
          [] s = "COUNTDOWN"     -> {"BARRIER_DOWN", "EMERGENCY"}
          [] s = "BARRIER_DOWN"  -> {"TRAIN_PASSING", "EMERGENCY"}
          [] s = "TRAIN_PASSING" -> {"IDLE", "EMERGENCY"}
          [] s = "EMERGENCY"     -> {"IDLE"}
          [] s = "MAINTENANCE"   -> {"IDLE", "EMERGENCY"}]

\* a table that lets the barrier be lowered straight from WARNING
valid_transitions_WarningToBarrierDown ==
    [s \in CrossingState |->
        CASE s = "IDLE"          -> {"WARNING", "EMERGENCY", "MAINTENANCE"}
          [] s = "WARNING"       -> {"COUNTDOWN", "BARRIER_DOWN", "IDLE",
                                     "EMERGENCY"}
          [] s = "COUNTDOWN"     -> {"BARRIER_DOWN", "EMERGENCY"}
          [] s = "BARRIER_DOWN"  -> {"TRAIN_PASSING", "EMERGENCY"}
          [] s = "TRAIN_PASSING" -> {"IDLE", "EMERGENCY"}
          [] s = "EMERGENCY"     -> {"IDLE"}
          [] s = "MAINTENANCE"   -> {"IDLE"}]

\* valid_transitions of RailwayCrossing.transition
valid_transitions ==
    [s \in CrossingState |->
        CASE s = "IDLE"          -> {"WARNING", "EMERGENCY", "MAINTENANCE"}
          [] s = "WARNING"       -> {"COUNTDOWN", "IDLE", "EMERGENCY"}
          [] s = "COUNTDOWN"     -> {"BARRIER_DOWN", "EMERGENCY"}
          [] s = "BARRIER_DOWN"  -> {"TRAIN_PASSING", "EMERGENCY"}
          [] s = "TRAIN_PASSING" -> {"IDLE", "EMERGENCY"}
          [] s = "EMERGENCY"     -> {"IDLE"}
          [] s = "MAINTENANCE"   -> {"IDLE"}]

Components == {"barrier_motor", "traffic_lights", "alarm_system", "sensors"}

Sensors == {"ir", "ultrasonic", "vibration", "rfid"}

\* the largest whole number of seconds in a state that the code can tell
\* from a larger one: the thresholds of background_task, and the largest
\* adjusted countdown time while counting down
DwellCap(s) ==
    CASE s = "WARNING"       -> 3
      [] s = "COUNTDOWN"     -> (10 * weather_multipliers["STORM"]) \div 10
      [] s = "BARRIER_DOWN"  -> 2
      [] s = "TRAIN_PASSING" -> 3
      [] OTHER               -> 0

Min(a, b) == IF a < b THEN a ELSE b
Max(a, b) == IF a > b THEN a ELSE b

-----------------------------------------------------------------------------
(* RailwayCrossing *)

\* RailwayCrossing.__init__
NewCrossing(crossing_id) ==
    [id               |-> crossing_id,
     state            |-> "IDLE",
     barrier          |-> "UP",
     train_position   |-> -100,
     train_speed      |-> 0,
     train_distance   |-> 0,
     weather          |-> "CLEAR",
     countdown        |-> 10,
     alarm            |-> "SILENT",
     traffic_lights   |-> {"green"},
     sensor_health    |-> [s \in Sensors |-> TRUE],
     faults           |-> << >>,
     state_history    |-> << >>,
     time_in_state    |-> 0,
     operation_count  |-> 0,
     component_health |-> [k \in Components |-> 100]]

\* _update_outputs whose EMERGENCY branch forgets the barrier
_update_outputs_EmergencyKeepsBarrier(cr) ==
    CASE cr.state = "IDLE" ->
            [cr EXCEPT !.barrier = "UP", !.traffic_lights = {"green"},
                       !.alarm = "SILENT", !.countdown = 10]
      [] cr.state = "WARNING" ->
            [cr EXCEPT !.barrier = "UP", !.traffic_lights = {"yellow"},
                       !.alarm = "SLOW_BEEP",
                       !.countdown = get_adjusted_time(cr, 10)]
      [] cr.state = "COUNTDOWN" ->
            [cr EXCEPT !.barrier = "UP", !.traffic_lights = {"red"},
                       !.alarm = "FAST_BEEP"]
      [] cr.state = "BARRIER_DOWN" ->
            [cr EXCEPT !.barrier = "DOWN", !.traffic_lights = {"red"},
                       !.alarm = "CONTINUOUS"]
      [] cr.state = "TRAIN_PASSING" ->
            [cr EXCEPT !.barrier = "DOWN", !.traffic_lights = {"red"},
                       !.alarm = "SILENT"]
      [] cr.state = "EMERGENCY" ->
            [cr EXCEPT !.traffic_lights = {"red", "yellow"},
                       !.alarm = "CONTINUOUS", !.train_position = -100]
      [] cr.state = "MAINTENANCE" ->
            [cr EXCEPT !.barrier = "UP", !.traffic_lights = {},
                       !.alarm = "SILENT"]

\* _update_outputs whose IDLE branch takes the train off the display
_update_outputs_IdleResetsPosition(cr) ==
    CASE cr.state = "IDLE" ->
            [cr EXCEPT !.barrier = "UP", !.traffic_lights = {"green"},
                       !.alarm = "SILENT", !.train_position = -100,
                       !.countdown = 10]
      [] cr.state = "WARNING" ->
            [cr EXCEPT !.barrier = "UP", !.traffic_lights = {"yellow"},
                       !.alarm = "SLOW_BEEP",
                       !.countdown = get_adjusted_time(cr, 10)]
      [] cr.state = "COUNTDOWN" ->
            [cr EXCEPT !.barrier = "UP", !.traffic_lights = {"red"},
                       !.alarm = "FAST_BEEP"]
      [] cr.state = "BARRIER_DOWN" ->
            [cr EXCEPT !.barrier = "DOWN", !.traffic_lights = {"red"},
                       !.alarm = "CONTINUOUS"]
      [] cr.state = "TRAIN_PASSING" ->
            [cr EXCEPT !.barrier = "DOWN", !.traffic_lights = {"red"},
                       !.alarm = "SILENT"]
      [] cr.state = "EMERGENCY" ->
            [cr EXCEPT !.barrier = "UP", !.traffic_lights = {"red", "yellow"},
                       !.alarm = "CONTINUOUS", !.train_position = -100]
      [] cr.state = "MAINTENANCE" ->
            [cr EXCEPT !.barrier = "UP", !.traffic_lights = {},
                       !.alarm = "SILENT"]

\* RailwayCrossing._update_outputs: the outputs of the state the crossing
\* is in (traffic_lights is the set of lamps that are lit)
_update_outputs(cr) ==
    CASE cr.state = "IDLE" ->
            [cr EXCEPT !.barrier = "UP", !.traffic_lights = {"green"},
                       !.alarm = "SILENT", !.countdown = 10]
      [] cr.state = "WARNING" ->
            [cr EXCEPT !.barrier = "UP", !.traffic_lights = {"yellow"},
                       !.alarm = "SLOW_BEEP",
                       !.countdown = get_adjusted_time(cr, 10)]
      [] cr.state = "COUNTDOWN" ->
            [cr EXCEPT !.barrier = "UP", !.traffic_lights = {"red"},
                       !.alarm = "FAST_BEEP"]
      [] cr.state = "BARRIER_DOWN" ->
            [cr EXCEPT !.barrier = "DOWN", !.traffic_lights = {"red"},
                       !.alarm = "CONTINUOUS"]
      [] cr.state = "TRAIN_PASSING" ->
            [cr EXCEPT !.barrier = "DOWN", !.traffic_lights = {"red"},
                       !.alarm = "SILENT"]
      [] cr.state = "EMERGENCY" ->
            [cr EXCEPT !.barrier = "UP", !.traffic_lights = {"red", "yellow"},
                       !.alarm = "CONTINUOUS", !.train_position = -100]
      [] cr.state = "MAINTENANCE" ->
            [cr EXCEPT !.barrier = "UP", !.traffic_lights = {},
                       !.alarm = "SILENT"]

\* the outcome of random.random() < 0.1 and of the two draws that follow it:
\* no degradation, or one component and a degradation of 1..3
NoWear == [component |-> "none", degradation |-> 0]
WearOutcomes ==
    {NoWear} \cup [component : Components, degradation : 1..3]

\* a wear step without the floor of 50
Degrade_NoFloor(cr, wear) ==
    IF wear.component = "none"
    THEN cr
    ELSE [cr EXCEPT !.component_health[wear.component] =
                        @ - wear.degradation]

\* the wear step of transition
Degrade(cr, wear) ==
    IF wear.component = "none"
    THEN cr
    ELSE [cr EXCEPT !.component_health[wear.component] =
                        Max(50, @ - wear.degradation)]

\* a history that drops its newest entry when longer than 10
RecordHistory_DropsNewest(cr, old_state, new_state) ==
    LET h == Append(cr.state_history,
                    [from |-> old_state, to |-> new_state,
                     weather |-> cr.weather])
    IN [cr EXCEPT !.state_history =
                     IF Len(h) > 10 THEN SubSeq(h, 1, 10) ELSE h]

\* state_history.append(...) followed by pop(0) when longer than 10
RecordHistory(cr, old_state, new_state) ==
    LET h == Append(cr.state_history,
                    [from |-> old_state, to |-> new_state,
                     weather |-> cr.weather])
    IN [cr EXCEPT !.state_history = IF Len(h) > 10 THEN Tail(h) ELSE h]

\* RailwayCrossing.transition applied to the crossing object cr:
\* ok is the value returned, cr the object after the call
transition(cr, new_state, wear) ==
    IF new_state \notin valid_transitions[cr.state]
    THEN [ok |-> FALSE, cr |-> cr]
    ELSE LET c1 == IF new_state = "COUNTDOWN"
                   THEN [cr EXCEPT !.countdown = get_adjusted_time(cr, 10)]
                   ELSE cr
             c2 == [c1 EXCEPT !.state = new_state, !.time_in_state = 0]
             c3 == RecordHistory(c2, cr.state, new_state)
             c4 == _update_outputs(c3)
             c5 == [c4 EXCEPT !.operation_count = @ + 1]
         IN [ok |-> TRUE, cr |-> Degrade(c5, wear)]

\* RailwayCrossing.calculate_arrival_time() > limit, in seconds:
\* infinity, or distance / (speed * 1000/3600), compared exactly
ArrivalTimeExceeds(cr, limit) ==
    IF cr.train_speed <= 0 \/ cr.train_distance <= 0
    THEN TRUE
    ELSE cr.train_distance * 3600 > limit * cr.train_speed * 1000

-----------------------------------------------------------------------------
(* RailwaySystem *)

\* RailwaySystem._initialize_crossings
InitialCrossings == [i \in 0..(NumCrossings - 1) |-> NewCrossing(i)]

\* RailwaySystem.__init__: global_state
InitialGlobalState ==
    [emergency |-> FALSE, maintenance |-> FALSE, weather |-> "CLEAR",
     system_health |-> 100, total_trains |-> 0]

\* RailwaySystem.__init__: statistics
InitialStatistics ==
    [total_operations |-> 0, successful_transitions |-> 0,
     failed_transitions |-> 0, emergency_events |-> 0]

\* no process_command call has returned yet
NoResponse == [success |-> FALSE, error |-> "no call"]

\* no direct call of transition has been made
NoCall == [id |-> -1, from |-> "none", to |-> "none", ret |-> FALSE]

\* RailwaySystem._can_advance_state
_can_advance_state(cr) ==
    IF cr.state = "EMERGENCY" \/ cr.state = "MAINTENANCE" THEN FALSE
    ELSE IF cr.state = "COUNTDOWN" /\ cr.countdown > 0 THEN FALSE
    ELSE IF cr.state = "WARNING" /\ ArrivalTimeExceeds(cr, 5) THEN FALSE
    ELSE TRUE

\* the params dictionary of a command: keys is the set of keys present
\* (empty for None and for {}), the other fields are the values of the keys
NoParams ==
    [keys |-> {}, train_speed |-> 0, train_distance |-> 0, weather |-> ""]

\* a params value that is not a dictionary and is not empty, such as a JSON
\* list: (params or {}).items() raises AttributeError on it
MalformedParams == [keys |-> {}, malformed |-> TRUE]

IsMalformed(params) == "malformed" \in DOMAIN params

\* fault_type of inject_fault: params.get('fault_type', 'sensor_ir') when
\* params is not empty, 'sensor_ir' otherwise
FaultType(params) ==
    IF params.keys # {} /\ "fault_type" \in params.keys
    THEN params.fault_type
    ELSE "sensor_ir"

\* d[k] = v on a dictionary d, whether or not it has the key k
SetKey(d, k, v) ==
    [x \in DOMAIN d \cup {k} |-> IF x = k THEN v ELSE d[x]]

\* the inject_fault branch of process_command on crossing cr
InjectFault(cr, fault_type) ==
    CASE fault_type = "sensor_ir" ->
            [cr EXCEPT !.sensor_health = SetKey(@, "ir", FALSE),
                       !.faults = Append(@, "IR_SENSOR_FAULT")]
      [] fault_type = "sensor_vib" ->
            [cr EXCEPT !.sensor_health = SetKey(@, "vibration", FALSE),
                       !.faults = Append(@, "VIBRATION_SENSOR_FAULT")]
      [] fault_type = "barrier_stuck" ->
            [cr EXCEPT !.faults = Append(@, "BARRIER_STUCK")]
      [] OTHER -> cr

\* the clear_faults branch of process_command on crossing cr
ClearFaults(cr) ==
    [cr EXCEPT !.sensor_health = [k \in {"ir", "vibration", "rfid"} |-> TRUE],
               !.faults = << >>]

\* str.upper() on the weather names a caller may send
Upper(name) ==
    CASE name = "clear" -> "CLEAR"
      [] name = "rain"  -> "RAIN"
      [] name = "fog"   -> "FOG"
      [] name = "storm" -> "STORM"
      [] name = "Storm" -> "STORM"
      [] OTHER          -> name

\* the parameter block of the approach command: speed and distance are
\* stored before the transition is attempted, the weather is looked up by
\* its upper-cased name and falls back to CLEAR when the lookup raises
SetApproachParams(cr, params) ==
    IF params.keys = {} THEN cr
    ELSE LET c1 == [cr EXCEPT
                      !.train_speed =
                          IF "train_speed" \in params.keys
                          THEN params.train_speed ELSE 60,
                      !.train_distance =
                          IF "train_distance" \in params.keys
                          THEN params.train_distance ELSE 200]
         IN IF "weather" \notin params.keys THEN c1
            ELSE IF Upper(params.weather) \in WeatherCondition
                 THEN [c1 EXCEPT !.weather = Upper(params.weather)]
                 ELSE [c1 EXCEPT !.weather = "CLEAR"]

\* global_state['weather'] after the parameter block of approach
ApproachGlobalWeather(gs, params) ==
    IF "weather" \in params.keys /\ Upper(params.weather) \in WeatherCondition
    THEN [gs EXCEPT !.weather = Upper(params.weather)]
    ELSE gs

\* the commands that call transition
TransitionCommands ==
    {"approach", "countdown", "barrier_down", "train_pass", "reset",
     "emergency", "maintenance"}

\* the commands process_command knows
Commands == TransitionCommands \cup {"inject_fault", "clear_faults"}

\* the branch of process_command for one command: success is the flag the
\* branch sets, cs and gs are the crossings and global_state it leaves.
\* wear gives the wear outcome of each crossing's transition.
Execute(crossing_id, command, params, wear) ==
    LET crossing == crossings[crossing_id]
        one(t, after) ==
            [success |-> t.ok,
             cs |-> [crossings EXCEPT ![crossing_id] =
                        IF t.ok THEN after ELSE t.cr],
             gs |-> global_state]
    IN CASE command = "approach" ->
              LET t == transition(SetApproachParams(crossing, params),
                                  "WARNING", wear[crossing_id])
                  r == one(t, [t.cr EXCEPT !.train_position = 0])
              IN [r EXCEPT !.gs = ApproachGlobalWeather(global_state, params)]
         [] command = "countdown" ->
              LET t == transition(crossing, "COUNTDOWN", wear[crossing_id])
              IN one(t, t.cr)
         [] command = "barrier_down" ->
              LET t == transition(crossing, "BARRIER_DOWN", wear[crossing_id])
              IN one(t, t.cr)
         [] command = "train_pass" ->
              LET t == transition(crossing, "TRAIN_PASSING", wear[crossing_id])
                  r == one(t, [t.cr EXCEPT !.train_position = 100])
              IN IF t.ok
                 THEN [r EXCEPT !.gs.total_trains = @ + 1]
                 ELSE r
         [] command = "reset" ->
              LET t == transition(crossing, "IDLE", wear[crossing_id])
              IN one(t, [t.cr EXCEPT !.train_position = -100,
                                     !.train_speed = 0,
                                     !.train_distance = 0])
         [] command = "emergency" ->
              LET on == ~global_state.emergency
                  target == IF on THEN "EMERGENCY" ELSE "IDLE"
              IN [success |-> TRUE,
                  cs |-> [c \in DOMAIN crossings |->
                            transition(crossings[c], target, wear[c]).cr],
                  gs |-> [global_state EXCEPT !.emergency = on]]
         [] command = "maintenance" ->
              LET t == transition(crossing, "MAINTENANCE", wear[crossing_id])
                  r == one(t, t.cr)
              IN IF t.ok
                 THEN [r EXCEPT !.gs.maintenance = TRUE]
                 ELSE r
         [] command = "inject_fault" ->
              [success |-> TRUE,
               cs |-> [crossings EXCEPT
                         ![crossing_id] = InjectFault(@, FaultType(params))],
               gs |-> global_state]
         [] command = "clear_faults" ->
              [success |-> TRUE,
               cs |-> [crossings EXCEPT ![crossing_id] = ClearFaults(@)],
               gs |-> global_state]

\* process_command without the test for a negative id: a negative id
\* indexes the list of crossings from its end
process_command_NegativeIndex(crossing_id, command, params, wear) ==
    /\ UNCHANGED <<call, threads>>
    /\ IF crossing_id >= Cardinality(DOMAIN crossings)
       THEN /\ response' = [success |-> FALSE, error |-> "Invalid crossing ID"]
            /\ UNCHANGED <<crossings, global_state, statistics>>
       ELSE IF IsMalformed(params)
       THEN /\ response' = [success |-> FALSE, error |-> "AttributeError"]
            /\ UNCHANGED <<crossings, global_state, statistics>>
       ELSE IF command \notin Commands
       THEN /\ response' = [success |-> FALSE, error |-> "Unknown command"]
            /\ UNCHANGED <<crossings, global_state, statistics>>
       ELSE LET index == IF crossing_id < 0
                         THEN crossing_id + Cardinality(DOMAIN crossings)
                         ELSE crossing_id
                r == Execute(index, command, params, wear)
            IN /\ crossings' = r.cs
               /\ global_state' = r.gs
               /\ statistics' =
                    [statistics EXCEPT
                       !.successful_transitions =
                           IF r.success THEN @ + 1 ELSE @,
                       !.failed_transitions =
                           IF r.success THEN @ ELSE @ + 1,
                       !.total_operations = @ + 1]
               /\ response' = [success |-> r.success, error |-> ""]

\* process_command that reports an unknown command as done
process_command_UnknownSucceeds(crossing_id, command, params, wear) ==
    /\ UNCHANGED <<call, threads>>
    /\ IF crossing_id < 0 \/ crossing_id >= Cardinality(DOMAIN crossings)
       THEN /\ response' = [success |-> FALSE, error |-> "Invalid crossing ID"]
            /\ UNCHANGED <<crossings, global_state, statistics>>
       ELSE IF IsMalformed(params)
       THEN /\ response' = [success |-> FALSE, error |-> "AttributeError"]
            /\ UNCHANGED <<crossings, global_state, statistics>>
       ELSE IF command \notin Commands
       THEN /\ response' = [success |-> TRUE, error |-> ""]
            /\ UNCHANGED <<crossings, global_state, statistics>>
       ELSE LET r == Execute(crossing_id, command, params, wear)
            IN /\ crossings' = r.cs
               /\ global_state' = r.gs
               /\ statistics' =
                    [statistics EXCEPT
                       !.successful_transitions =
                           IF r.success THEN @ + 1 ELSE @,
                       !.failed_transitions =
                           IF r.success THEN @ ELSE @ + 1,
                       !.total_operations = @ + 1]
               /\ response' = [success |-> r.success, error |-> ""]

\* RailwaySystem.process_command: the id check, the try block (the log line
\* that raises on malformed params, the branch of the command, the
\* statistics, the result) and its except clause
process_command(crossing_id, command, params, wear) ==
    /\ UNCHANGED <<call, threads>>
    /\ IF crossing_id < 0 \/ crossing_id >= Cardinality(DOMAIN crossings)
       THEN /\ response' = [success |-> FALSE, error |-> "Invalid crossing ID"]
            /\ UNCHANGED <<crossings, global_state, statistics>>
       ELSE IF IsMalformed(params)
       THEN /\ response' = [success |-> FALSE, error |-> "AttributeError"]
            /\ UNCHANGED <<crossings, global_state, statistics>>
       ELSE IF command \notin Commands
       THEN /\ response' = [success |-> FALSE, error |-> "Unknown command"]
            /\ UNCHANGED <<crossings, global_state, statistics>>
       ELSE LET r == Execute(crossing_id, command, params, wear)
            IN /\ crossings' = r.cs
               /\ global_state' = r.gs
               /\ statistics' =
                    [statistics EXCEPT
                       !.successful_transitions =
                           IF r.success THEN @ + 1 ELSE @,
                       !.failed_transitions =
                           IF r.success THEN @ ELSE @ + 1,
                       !.total_operations = @ + 1]
               /\ response' = [success |-> r.success, error |-> ""]

RECURSIVE SumOver(_, _)
SumOver(f, S) ==
    IF S = {} THEN 0
    ELSE LET x == CHOOSE y \in S : TRUE
         IN f[x] + SumOver(f, S \ {x})

\* the count of _update_statistics: the entries of the state histories
\* that lead to EMERGENCY
EmergencyEvents(cs) ==
    SumOver([c \in DOMAIN cs |->
               Cardinality({i \in 1..Len(cs[c].state_history) :
                               cs[c].state_history[i].to = "EMERGENCY"})],
            DOMAIN cs)

\* RailwaySystem.get_system_status: _update_statistics recounts the
\* emergency events.  The other figures it derives (average_health,
\* success_rate, maintenance_warnings, active_crossings) are not part of
\* the state of this model
get_system_status ==
    /\ statistics' = [statistics EXCEPT
                        !.emergency_events = EmergencyEvents(crossings)]
    /\ UNCHANGED <<crossings, global_state, response, call, threads>>

-----------------------------------------------------------------------------
(* background_task *)

ActiveStates == {"WARNING", "COUNTDOWN", "BARRIER_DOWN", "TRAIN_PASSING"}

\* an increment without its floor of 2
Increment_NoFloor(train_speed) == Min(10, (5 * train_speed) \div 100)

\* max(2, min(10, 5 * speed_factor)) with speed_factor = train_speed / 100
Increment(train_speed) == Max(2, Min(10, (5 * train_speed) \div 100))

\* a position update that no longer moves a train that is passing
UpdatePosition_StopsAtBarrier(cr) ==
    IF cr.state \in ActiveStates \ {"TRAIN_PASSING"} /\ cr.train_position < 100
    THEN [cr EXCEPT !.train_position =
                       Min(100, @ + Increment(cr.train_speed))]
    ELSE cr

\* a position update without min(100, ...)
UpdatePosition_NoClamp(cr) ==
    IF cr.state \in ActiveStates /\ cr.train_position < 100
    THEN [cr EXCEPT !.train_position = @ + Increment(cr.train_speed)]
    ELSE cr

\* the position update of one crossing
UpdatePosition(cr) ==
    IF cr.state \in ActiveStates /\ cr.train_position < 100
    THEN [cr EXCEPT !.train_position =
                       Min(100, @ + Increment(cr.train_speed))]
    ELSE cr

\* an auto-advance that lets a crossing leave TRAIN_PASSING after 3 s
\* wherever the train is
AutoAdvance_IgnoresPosition(cr, wear) ==
    IF cr.state = "WARNING"
    THEN IF cr.time_in_state >= 3 /\ _can_advance_state(cr)
         THEN transition(cr, "COUNTDOWN", wear).cr
         ELSE cr
    ELSE IF cr.state = "COUNTDOWN" /\ cr.countdown > 0
    THEN LET new_countdown ==
                 Max(0, get_adjusted_time(cr, 10) - cr.time_in_state)
             c1 == [cr EXCEPT !.countdown = new_countdown]
         IN IF c1.countdown = 0 /\ _can_advance_state(c1)
            THEN transition(c1, "BARRIER_DOWN", wear).cr
            ELSE c1
    ELSE IF cr.state = "BARRIER_DOWN"
    THEN IF cr.time_in_state >= 2 /\ _can_advance_state(cr)
         THEN transition(cr, "TRAIN_PASSING", wear).cr
         ELSE cr
    ELSE IF cr.state = "TRAIN_PASSING"
    THEN IF cr.time_in_state >= 3 /\ _can_advance_state(cr)
         THEN [transition(cr, "IDLE", wear).cr EXCEPT !.train_position = -100]
         ELSE cr
    ELSE cr

\* an auto-advance that takes one second off the countdown it finds
AutoAdvance_Decrement(cr, wear) ==
    IF cr.state = "WARNING"
    THEN IF cr.time_in_state >= 3 /\ _can_advance_state(cr)
         THEN transition(cr, "COUNTDOWN", wear).cr
         ELSE cr
    ELSE IF cr.state = "COUNTDOWN" /\ cr.countdown > 0
    THEN LET new_countdown == Max(0, cr.countdown - 1)
             c1 == [cr EXCEPT !.countdown = new_countdown]
         IN IF c1.countdown = 0 /\ _can_advance_state(c1)
            THEN transition(c1, "BARRIER_DOWN", wear).cr
            ELSE c1
    ELSE IF cr.state = "BARRIER_DOWN"
    THEN IF cr.time_in_state >= 2 /\ _can_advance_state(cr)
         THEN transition(cr, "TRAIN_PASSING", wear).cr
         ELSE cr
    ELSE IF cr.state = "TRAIN_PASSING" /\ cr.train_position >= 100
    THEN IF cr.time_in_state >= 3 /\ _can_advance_state(cr)
         THEN [transition(cr, "IDLE", wear).cr EXCEPT !.train_position = -100]
         ELSE cr
    ELSE cr

\* an auto-advance that counts down from the base time, whatever the weather
AutoAdvance_IgnoresWeather(cr, wear) ==
    IF cr.state = "WARNING"
    THEN IF cr.time_in_state >= 3 /\ _can_advance_state(cr)
         THEN transition(cr, "COUNTDOWN", wear).cr
         ELSE cr
    ELSE IF cr.state = "COUNTDOWN" /\ cr.countdown > 0
    THEN LET new_countdown ==
                 Max(0, 10 - cr.time_in_state)
             c1 == [cr EXCEPT !.countdown = new_countdown]
         IN IF c1.countdown = 0 /\ _can_advance_state(c1)
            THEN transition(c1, "BARRIER_DOWN", wear).cr
            ELSE c1
    ELSE IF cr.state = "BARRIER_DOWN"
    THEN IF cr.time_in_state >= 2 /\ _can_advance_state(cr)
         THEN transition(cr, "TRAIN_PASSING", wear).cr
         ELSE cr
    ELSE IF cr.state = "TRAIN_PASSING" /\ cr.train_position >= 100
    THEN IF cr.time_in_state >= 3 /\ _can_advance_state(cr)
         THEN [transition(cr, "IDLE", wear).cr EXCEPT !.train_position = -100]
         ELSE cr
    ELSE cr

\* the auto-advance of one crossing
AutoAdvance(cr, wear) ==
    IF cr.state = "WARNING"
    THEN IF cr.time_in_state >= 3 /\ _can_advance_state(cr)
         THEN transition(cr, "COUNTDOWN", wear).cr
         ELSE cr
    ELSE IF cr.state = "COUNTDOWN" /\ cr.countdown > 0
    THEN LET new_countdown ==
                 Max(0, get_adjusted_time(cr, 10) - cr.time_in_state)
             c1 == [cr EXCEPT !.countdown = new_countdown]
         IN IF c1.countdown = 0 /\ _can_advance_state(c1)
            THEN transition(c1, "BARRIER_DOWN", wear).cr
            ELSE c1
    ELSE IF cr.state = "BARRIER_DOWN"
    THEN IF cr.time_in_state >= 2 /\ _can_advance_state(cr)
         THEN transition(cr, "TRAIN_PASSING", wear).cr
         ELSE cr
    ELSE IF cr.state = "TRAIN_PASSING" /\ cr.train_position >= 100
    THEN IF cr.time_in_state >= 3 /\ _can_advance_state(cr)
         THEN [transition(cr, "IDLE", wear).cr EXCEPT !.train_position = -100]
         ELSE cr
    ELSE cr

\* max(0, 100 - (total_faults * 5 + sensor_health * 3))
SystemHealth(cs) ==
    LET total_faults == SumOver([c \in DOMAIN cs |-> Len(cs[c].faults)],
                                DOMAIN cs)
        unhealthy == SumOver(
            [c \in DOMAIN cs |->
                Cardinality({s \in DOMAIN cs[c].sensor_health :
                                ~cs[c].sensor_health[s]})],
            DOMAIN cs)
    IN Max(0, 100 - (total_faults * 5 + unhealthy * 3))

\* time.sleep(seconds) as crossing cr sees it: the whole seconds it has
\* spent in its state grow by the seconds slept
Sleep(cr, seconds) ==
    [cr EXCEPT !.time_in_state = Min(@ + seconds, DwellCap(cr.state))]

\* stands for a train_speed that is not a number, such as the string
\* "fast" that approach stores unchecked: arithmetic on it raises TypeError
NonNumeric == -1

\* the loop body raises on crossing cr: in crossing.train_speed / 100 of the
\* position update, or in calculate_arrival_time, which
\* _can_advance_state calls for a crossing in WARNING
TickRaises(cr) ==
    /\ cr.train_speed = NonNumeric
    /\ \/ cr.state \in ActiveStates /\ cr.train_position < 100
       \/ cr.state = "WARNING" /\ cr.time_in_state >= 3

\* the try block of background_task: the for loop over the crossings in
\* the order of the list, left at the first crossing that raises.  The
\* crossing that raises has not been changed when it raises; the crossings
\* after it are not reached
LoopBody(cs, wear) ==
    LET raising == {c \in DOMAIN cs : TickRaises(cs[c])}
    IN [raised |-> raising # {},
        cs |-> [c \in DOMAIN cs |->
                  IF \A r \in raising : c < r
                  THEN AutoAdvance(UpdatePosition(cs[c]), wear[c])
                  ELSE cs[c]]]

\* one iteration of the loop of background_task: the try block (the loop
\* over the crossings, then the system health, which is skipped when the
\* loop raised), then the sleep
Tick(wear, seconds) ==
    \E b \in {LoopBody(crossings, wear)} :
       /\ crossings' = [c \in DOMAIN b.cs |-> Sleep(b.cs[c], seconds)]
       /\ global_state' =
             IF b.raised
             THEN global_state
             ELSE [global_state EXCEPT !.system_health = SystemHealth(b.cs)]
       /\ UNCHANGED <<statistics, response, call, threads>>

-----------------------------------------------------------------------------
(* The system: commands of an operator, scheduler ticks and time *)

NoThreads == << >>

Init ==
    /\ crossings = InitialCrossings
    /\ global_state = InitialGlobalState
    /\ statistics = InitialStatistics
    /\ response = NoResponse
    /\ call = NoCall
    /\ threads = NoThreads

\* the crossing an operator sends commands to.  Crossings are independent
\* of each other: the other three are reached by the scheduler and by the
\* emergency broadcast, which every command sent to crossing 0 can trigger
OperatedIds == {0}

\* the parameters sent with a command: a train that is near (1.8 s away),
\* and a fast train that is far away (18 s) in a storm
ParamChoices ==
    {[keys |-> {"train_speed", "train_distance"},
      train_speed |-> 100, train_distance |-> 50, weather |-> ""],
     [keys |-> {"train_speed", "train_distance", "weather"},
      train_speed |-> 200, train_distance |-> 1000, weather |-> "storm"]}

\* no component degrades
NoWearAll == [c \in DOMAIN crossings |-> NoWear]

Command ==
    /\ statistics.total_operations < MaxOps
    /\ \E id \in OperatedIds, command \in TransitionCommands,
          params \in ParamChoices :
           process_command(id, command, params, NoWearAll)

SchedulerTick == Tick(NoWearAll, 1)

Next == Command \/ SchedulerTick

Spec == Init /\ [][Next]_vars

-----------------------------------------------------------------------------
(* One RailwayCrossing driven by direct calls of transition *)

\* RailwayCrossing(0, logger), its weather then set to any condition
InitTransition ==
    /\ \E w \in WeatherCondition :
          crossings = [i \in {0} |-> [NewCrossing(0) EXCEPT !.weather = w]]
    /\ global_state = InitialGlobalState
    /\ statistics = InitialStatistics
    /\ response = NoResponse
    /\ call = NoCall
    /\ threads = NoThreads

\* crossing.transition(new_state); call records the call and what it returned
TransitionCall(c, new_state, wear) ==
    LET t == transition(crossings[c], new_state, wear)
    IN /\ crossings' = [crossings EXCEPT ![c] = t.cr]
       /\ call' = [id |-> c, from |-> crossings[c].state, to |-> new_state,
                   ret |-> t.ok]
       /\ UNCHANGED <<global_state, statistics, response, threads>>

\* the wear outcomes drawn when transition is called directly
WearChoices == {NoWear, [component |-> "barrier_motor", degradation |-> 3]}

DirectCall ==
    \E c \in DOMAIN crossings, new_state \in CrossingState, wear \in WearChoices :
        /\ crossings[c].operation_count < MaxTransitions
        /\ TransitionCall(c, new_state, wear)

NextTransition == DirectCall

SpecTransition == InitTransition /\ [][NextTransition]_vars

-----------------------------------------------------------------------------
(* One RailwayCrossing over a long run of direct calls of transition, long *)
(* enough for state_history to reach its cap and for a component to wear   *)
(* down to its floor                                                       *)

\* cap on operation_count
MaxLongTransitions == 18

\* RailwayCrossing(0, logger)
InitLongRun ==
    /\ crossings = [i \in {0} |-> NewCrossing(0)]
    /\ global_state = InitialGlobalState
    /\ statistics = InitialStatistics
    /\ response = NoResponse
    /\ call = NoCall
    /\ threads = NoThreads

\* the states asked for: the crossing moves between IDLE, MAINTENANCE and
\* EMERGENCY
LongRunTargets == {"IDLE", "MAINTENANCE", "EMERGENCY"}

\* the wear outcomes drawn: none, or the barrier motor loses 2 or 3
LongRunWear ==
    {NoWear, [component |-> "barrier_motor", degradation |-> 2],
     [component |-> "barrier_motor", degradation |-> 3]}

LongRunCall ==
    \E new_state \in LongRunTargets, wear \in LongRunWear :
        /\ crossings[0].operation_count < MaxLongTransitions
        /\ TransitionCall(0, new_state, wear)

NextLongRun == LongRunCall

SpecLongRun == InitLongRun /\ [][NextLongRun]_vars

-----------------------------------------------------------------------------
(* One RailwayCrossing with a train and a fault on it, driven by direct    *)
(* calls of transition                                                     *)

\* cap on operation_count
MaxTrainTransitions == 3

\* the train fields as approach and the scheduler leave them: no train, a
\* train on its way, a train that has arrived
TrainChoices ==
    {[train_position |-> -100, train_speed |-> 0,  train_distance |-> 0],
     [train_position |-> 50,   train_speed |-> 60, train_distance |-> 50],
     [train_position |-> 100,  train_speed |-> 100, train_distance |-> 50]}

\* RailwayCrossing(0, logger) with its train fields and weather set, and
\* with or without an injected sensor_ir fault
InitTrain ==
    /\ \E tr \in TrainChoices, w \in {"CLEAR", "STORM"}, faulty \in BOOLEAN :
          LET c0 == [NewCrossing(0) EXCEPT
                        !.train_position = tr.train_position,
                        !.train_speed = tr.train_speed,
                        !.train_distance = tr.train_distance,
                        !.weather = w]
          IN crossings =
                [i \in {0} |->
                    IF faulty THEN InjectFault(c0, "sensor_ir") ELSE c0]
    /\ global_state = InitialGlobalState
    /\ statistics = InitialStatistics
    /\ response = NoResponse
    /\ call = NoCall
    /\ threads = NoThreads

TrainCall ==
    \E new_state \in CrossingState, wear \in WearChoices :
        /\ crossings[0].operation_count < MaxTrainTransitions
        /\ TransitionCall(0, new_state, wear)

NextTrain == TrainCall

SpecTrain == InitTrain /\ [][NextTrain]_vars

-----------------------------------------------------------------------------
(* The system over a run of commands long enough for the state history of  *)
(* a crossing to reach its cap, with requests for the status in between    *)

\* cap on statistics.total_operations
MaxStatusOps == 11

StatusCommands == {"emergency", "maintenance", "reset"}

StatusCommand ==
    /\ statistics.total_operations < MaxStatusOps
    /\ \E id \in OperatedIds, command \in StatusCommands :
          process_command(id, command, NoParams, NoWearAll)

\* GET /api/system/status
StatusRequest == get_system_status

NextStatus == StatusCommand \/ StatusRequest \/ SchedulerTick

SpecStatus == Init /\ [][NextStatus]_vars

-----------------------------------------------------------------------------
(* The system with a train_speed that is not a number: approach commands   *)
(* for two crossings, with the speed "fast" among the parameters           *)

\* cap on statistics.total_operations
MaxIsolationOps == 3

IsolationIds == {0, 1}

\* {"train_speed": "fast", "train_distance": 50}
NonNumericSpeed ==
    [keys |-> {"train_speed", "train_distance"},
     train_speed |-> NonNumeric, train_distance |-> 50, weather |-> ""]

IsolationParams == {NonNumericSpeed} \cup ParamChoices

IsolationCommand ==
    /\ statistics.total_operations < MaxIsolationOps
    /\ \E id \in IsolationIds, params \in IsolationParams :
          process_command(id, "approach", params, NoWearAll)

NextIsolation == IsolationCommand \/ SchedulerTick

SpecIsolation == Init /\ [][NextIsolation]_vars

-----------------------------------------------------------------------------
(* The system with trains of three speeds: a slow one whose increment per  *)
(* tick is the lower clamp 2, one of 60 km/h whose increment 3 does not    *)
(* divide 100, and a fast one whose increment is the upper clamp 10.  All  *)
(* three are near enough (under 5 s) for WARNING to auto-advance           *)

\* cap on statistics.total_operations
MaxPositionOps == 3

PositionParams ==
    {[keys |-> {"train_speed", "train_distance"},
      train_speed |-> 20, train_distance |-> 20, weather |-> ""],
     [keys |-> {"train_speed", "train_distance"},
      train_speed |-> 60, train_distance |-> 50, weather |-> ""],
     [keys |-> {"train_speed", "train_distance"},
      train_speed |-> 300, train_distance |-> 100, weather |-> ""]}

PositionCommands == {"approach", "train_pass", "emergency"}

PositionCommand ==
    /\ statistics.total_operations < MaxPositionOps
    /\ \E id \in OperatedIds, command \in PositionCommands,
          params \in PositionParams :
           process_command(id, command, params, NoWearAll)

NextPosition == PositionCommand \/ SchedulerTick

SpecPosition == Init /\ [][NextPosition]_vars

-----------------------------------------------------------------------------
(* The system under a scheduler that keeps ticking: background_task is a   *)
(* loop without an exit in a daemon thread, so a tick that can change the  *)
(* state is taken in the end.  The operator sends a bounded number of      *)
(* commands and none after them                                            *)

\* cap on statistics.total_operations
MaxLiveOps == 2

\* approach without parameters, with a near train and with a far one
LiveParams == {NoParams} \cup ParamChoices

LiveCommands == {"approach", "countdown", "train_pass"}

LiveCommand ==
    /\ statistics.total_operations < MaxLiveOps
    /\ \E id \in OperatedIds, command \in LiveCommands,
          params \in LiveParams :
           process_command(id, command, params, NoWearAll)

NextLive == LiveCommand \/ SchedulerTick

SpecLive == Init /\ [][NextLive]_vars /\ WF_vars(SchedulerTick)

\* the operator has sent the last command
NoFurtherCommands == statistics.total_operations = MaxLiveOps

-----------------------------------------------------------------------------
(* The system with faults: commands with ids out of range, unknown command *)
(* names and malformed params, the fault commands, and scheduler ticks     *)

\* cap on statistics.total_operations
MaxFaultOps == 3

\* the ids sent: one below the range, one in it, one above it
FaultIds == {-1, 0, NumCrossings}

\* the command names sent: open_barrier is not a command
FaultCommands ==
    {"maintenance", "reset", "inject_fault", "clear_faults", "open_barrier"}

\* the params sent: none, a fault type, and a list in place of a dictionary
FaultParams ==
    {NoParams,
     [keys |-> {"fault_type"}, fault_type |-> "sensor_vib"],
     [keys |-> {"fault_type"}, fault_type |-> "barrier_stuck"],
     MalformedParams}

FaultCommand ==
    /\ statistics.total_operations < MaxFaultOps
    /\ \E id \in FaultIds, command \in FaultCommands, params \in FaultParams :
           process_command(id, command, params, NoWearAll)

NextFaults == FaultCommand \/ SchedulerTick

SpecFaults == Init /\ [][NextFaults]_vars

\* The system with faults injected and cleared on one crossing

\* cap on statistics.total_operations
MaxInjectOps == 3

\* a fault_type that inject_fault does not know
UnknownFault == [keys |-> {"fault_type"}, fault_type |-> "power_loss"]

\* the params sent: none (sensor_ir), the other two fault types, and the
\* unknown one
InjectParams ==
    {NoParams,
     [keys |-> {"fault_type"}, fault_type |-> "sensor_vib"],
     [keys |-> {"fault_type"}, fault_type |-> "barrier_stuck"],
     UnknownFault}

InjectCommands == {"inject_fault", "clear_faults"}

InjectCommand ==
    /\ statistics.total_operations < MaxInjectOps
    /\ \E id \in OperatedIds, command \in InjectCommands,
          params \in InjectParams :
           process_command(id, command, params, NoWearAll)

NextInject == InjectCommand \/ SchedulerTick

SpecInject == Init /\ [][NextInject]_vars

-----------------------------------------------------------------------------
(* The system under every weather: approach commands that carry a weather, *)
(* countdown commands, and scheduler ticks                                 *)

\* cap on statistics.total_operations
MaxWeatherOps == 3

\* a train that is near, announced with each weather name
WeatherParams ==
    {[keys |-> {"train_speed", "train_distance", "weather"},
      train_speed |-> 100, train_distance |-> 50, weather |-> w] :
        w \in {"clear", "rain", "fog", "storm"}}

WeatherCommand ==
    /\ statistics.total_operations < MaxWeatherOps
    /\ \E id \in OperatedIds, command \in {"approach", "countdown"},
          params \in WeatherParams :
           process_command(id, command, params, NoWearAll)

NextWeather == WeatherCommand \/ SchedulerTick

SpecWeather == Init /\ [][NextWeather]_vars

-----------------------------------------------------------------------------
(* Threads.  A request handler runs process_command in a thread of its own  *)
(* and background_task runs in bg_thread; the code takes no lock.  Here the *)
(* statements of transition are separate steps of the thread that runs      *)
(* them: the validity check, the state write, the history append, the       *)
(* choice of the branch of _update_outputs, and the outputs.  Each thread   *)
(* keeps its position (pc) and its local variables in threads.  The         *)
(* emergency command, which runs transition on every crossing in turn, is   *)
(* not issued here.                                                         *)

\* cap on the commands issued while threads interleave
MaxRaceOps == 2

\* a thread that is not inside a call
IdleThread ==
    [pc |-> "idle", command |-> "none", crossing |-> 0, new_state |-> "none",
     old_state |-> "none", branch |-> "none", success |-> FALSE]

\* the state a command asks transition for
Target(command) ==
    CASE command = "approach"     -> "WARNING"
      [] command = "countdown"    -> "COUNTDOWN"
      [] command = "barrier_down" -> "BARRIER_DOWN"
      [] command = "train_pass"   -> "TRAIN_PASSING"
      [] command = "reset"        -> "IDLE"
      [] command = "maintenance"  -> "MAINTENANCE"

CommandThreads == DOMAIN threads \ {"bg"}

\* commands begun: those that returned and those in flight
CommandsBegun ==
    statistics.total_operations
        + Cardinality({t \in CommandThreads : threads[t].pc # "idle"})

\* process_command up to its call of transition: the parameter block of
\* approach, then the call
process_command_begin(t, crossing_id, command, params) ==
    /\ threads[t].pc = "idle"
    /\ CommandsBegun < MaxRaceOps
    /\ crossings' =
          IF command = "approach"
          THEN [crossings EXCEPT
                  ![crossing_id] = SetApproachParams(@, params)]
          ELSE crossings
    /\ global_state' =
          IF command = "approach"
          THEN ApproachGlobalWeather(global_state, params)
          ELSE global_state
    /\ threads' = [threads EXCEPT
                     ![t] = [IdleThread EXCEPT
                               !.pc = "check", !.command = command,
                               !.crossing = crossing_id,
                               !.new_state = Target(command)]]
    /\ UNCHANGED <<statistics, response, call>>

\* transition: the validity check, which returns False or goes on
transition_check(t) ==
    LET self == threads[t]
        cr == crossings[self.crossing]
    IN /\ self.pc = "check"
       /\ threads' =
             IF self.new_state \notin valid_transitions[cr.state]
             THEN [threads EXCEPT ![t].success = FALSE, ![t].pc = "after"]
             ELSE [threads EXCEPT ![t].pc = "write"]
       /\ UNCHANGED <<crossings, global_state, statistics, response, call>>

\* transition: the countdown of a COUNTDOWN target, old_state = self.state,
\* the state write and the time stamp
transition_write(t) ==
    LET self == threads[t]
        cr == crossings[self.crossing]
        c1 == IF self.new_state = "COUNTDOWN"
              THEN [cr EXCEPT !.countdown = get_adjusted_time(cr, 10)]
              ELSE cr
    IN /\ self.pc = "write"
       /\ crossings' = [crossings EXCEPT
                          ![self.crossing] =
                              [c1 EXCEPT !.state = self.new_state,
                                         !.time_in_state = 0]]
       /\ threads' = [threads EXCEPT ![t].old_state = cr.state,
                                     ![t].pc = "history"]
       /\ UNCHANGED <<global_state, statistics, response, call>>

\* transition: the history append
transition_history(t) ==
    LET self == threads[t]
    IN /\ self.pc = "history"
       /\ crossings' = [crossings EXCEPT
                          ![self.crossing] =
                              RecordHistory(@, self.old_state, self.new_state)]
       /\ threads' = [threads EXCEPT ![t].pc = "select"]
       /\ UNCHANGED <<global_state, statistics, response, call>>

\* _update_outputs: the if/elif chain reads self.state and picks a branch
_update_outputs_select(t) ==
    LET self == threads[t]
    IN /\ self.pc = "select"
       /\ threads' = [threads EXCEPT
                        ![t].branch = crossings[self.crossing].state,
                        ![t].pc = "apply"]
       /\ UNCHANGED <<crossings, global_state, statistics, response, call>>

\* _update_outputs: the assignments of the branch picked, then the rest of
\* transition (operation_count, wear, return True)
_update_outputs_apply(t) ==
    LET self == threads[t]
        cr == crossings[self.crossing]
        c1 == [_update_outputs([cr EXCEPT !.state = self.branch])
                  EXCEPT !.state = cr.state]
        c2 == [c1 EXCEPT !.operation_count = @ + 1]
    IN /\ self.pc = "apply"
       /\ crossings' = [crossings EXCEPT ![self.crossing] = Degrade(c2, NoWear)]
       /\ threads' = [threads EXCEPT ![t].success = TRUE, ![t].pc = "after"]
       /\ UNCHANGED <<global_state, statistics, response, call>>

\* process_command after transition has returned: what the branch of the
\* command does on success, the statistics and the response
process_command_return(t) ==
    LET self == threads[t]
        cr == crossings[self.crossing]
        after ==
            CASE ~self.success -> cr
              [] self.command = "approach" -> [cr EXCEPT !.train_position = 0]
              [] self.command = "train_pass" ->
                    [cr EXCEPT !.train_position = 100]
              [] self.command = "reset" ->
                    [cr EXCEPT !.train_position = -100, !.train_speed = 0,
                               !.train_distance = 0]
              [] OTHER -> cr
    IN /\ t # "bg"
       /\ self.pc = "after"
       /\ crossings' = [crossings EXCEPT ![self.crossing] = after]
       /\ global_state' =
             IF self.success /\ self.command = "train_pass"
             THEN [global_state EXCEPT !.total_trains = @ + 1]
             ELSE IF self.success /\ self.command = "maintenance"
             THEN [global_state EXCEPT !.maintenance = TRUE]
             ELSE global_state
       /\ statistics' =
             [statistics EXCEPT
                !.successful_transitions = IF self.success THEN @ + 1 ELSE @,
                !.failed_transitions = IF self.success THEN @ ELSE @ + 1,
                !.total_operations = @ + 1]
       /\ response' = [success |-> self.success, error |-> ""]
       /\ threads' = [threads EXCEPT ![t] = IdleThread]
       /\ UNCHANGED call

\* bg_thread at the top of the loop over the crossings
LoopStart == [IdleThread EXCEPT !.pc = "loop", !.command = "auto"]

\* bg_thread moves on: to the next crossing, or past the last one to the
\* system health and the sleep
NextCrossing(self) ==
    IF self.crossing + 1 < Cardinality(DOMAIN crossings)
    THEN [LoopStart EXCEPT !.crossing = self.crossing + 1]
    ELSE [LoopStart EXCEPT !.pc = "health", !.crossing = self.crossing]

\* the countdown the COUNTDOWN branch of the auto-advance recomputes
Recount(cr) ==
    IF cr.state = "COUNTDOWN" /\ cr.countdown > 0
    THEN [cr EXCEPT !.countdown =
                       Max(0, get_adjusted_time(cr, 10) - cr.time_in_state)]
    ELSE cr

\* the state the auto-advance asks transition for, "none" when it asks for
\* nothing; cr is the crossing after the position update and the recount,
\* counting says whether the COUNTDOWN branch was the one entered
AutoTarget(cr, counting) ==
    IF cr.state = "WARNING"
    THEN IF cr.time_in_state >= 3 /\ _can_advance_state(cr)
         THEN "COUNTDOWN" ELSE "none"
    ELSE IF counting
    THEN IF cr.countdown = 0 /\ _can_advance_state(cr)
         THEN "BARRIER_DOWN" ELSE "none"
    ELSE IF cr.state = "BARRIER_DOWN"
    THEN IF cr.time_in_state >= 2 /\ _can_advance_state(cr)
         THEN "TRAIN_PASSING" ELSE "none"
    ELSE IF cr.state = "TRAIN_PASSING" /\ cr.train_position >= 100
    THEN IF cr.time_in_state >= 3 /\ _can_advance_state(cr)
         THEN "IDLE" ELSE "none"
    ELSE "none"

\* background_task, one crossing of the loop: the position update and the
\* auto-advance up to its call of transition
background_task_crossing ==
    LET self == threads["bg"]
        c1 == UpdatePosition(crossings[self.crossing])
        counting == c1.state = "COUNTDOWN" /\ c1.countdown > 0
        c2 == Recount(c1)
        target == AutoTarget(c2, counting)
    IN /\ self.pc = "loop"
       /\ crossings' = [crossings EXCEPT ![self.crossing] = c2]
       /\ threads' =
             IF target = "none"
             THEN [threads EXCEPT !["bg"] = NextCrossing(self)]
             ELSE [threads EXCEPT !["bg"].pc = "check",
                                  !["bg"].new_state = target]
       /\ UNCHANGED <<global_state, statistics, response, call>>

\* background_task after transition has returned: the train_position the
\* TRAIN_PASSING branch sets, whatever transition returned
background_task_return ==
    LET self == threads["bg"]
    IN /\ self.pc = "after"
       /\ crossings' =
             IF self.new_state = "IDLE"
             THEN [crossings EXCEPT ![self.crossing].train_position = -100]
             ELSE crossings
       /\ threads' = [threads EXCEPT !["bg"] = NextCrossing(self)]
       /\ UNCHANGED <<global_state, statistics, response, call>>

\* background_task after the loop: the system health, then the sleep.  A
\* request handler runs for much less than the second slept: the second
\* passes while no handler is inside process_command
background_task_sleep ==
    /\ threads["bg"].pc = "health"
    /\ \A t \in CommandThreads : threads[t].pc = "idle"
    /\ global_state' =
          [global_state EXCEPT !.system_health = SystemHealth(crossings)]
    /\ crossings' = [c \in DOMAIN crossings |-> Sleep(crossings[c], 1)]
    /\ threads' = [threads EXCEPT !["bg"] = LoopStart]
    /\ UNCHANGED <<statistics, response, call>>

\* a step of transition, in whichever thread runs it
TransitionStep ==
    \E t \in DOMAIN threads :
        \/ transition_check(t)
        \/ transition_write(t)
        \/ transition_history(t)
        \/ _update_outputs_select(t)
        \/ _update_outputs_apply(t)

CommandReturn == \E t \in CommandThreads : process_command_return(t)

SchedulerStep ==
    \/ background_task_crossing
    \/ background_task_return
    \/ background_task_sleep

\* the system with the threads named
InitThreads(names) ==
    /\ crossings = InitialCrossings
    /\ global_state = InitialGlobalState
    /\ statistics = InitialStatistics
    /\ response = NoResponse
    /\ call = NoCall
    /\ threads = [t \in names |-> IF t = "bg" THEN LoopStart ELSE IdleThread]

\* a train that is near: 1.8 s away
NearTrain ==
    [keys |-> {"train_speed", "train_distance"},
     train_speed |-> 100, train_distance |-> 50, weather |-> ""]

\* One request handler and the scheduler on the same crossing

InitRace == InitThreads({"cmd", "bg"})

RaceCommands ==
    {"approach", "countdown", "barrier_down", "train_pass", "reset"}

RaceCommand ==
    \E t \in CommandThreads, command \in RaceCommands :
        process_command_begin(t, 0, command, NearTrain)

NextRace == RaceCommand \/ TransitionStep \/ CommandReturn \/ SchedulerStep

SpecRace == InitRace /\ [][NextRace]_vars

\* Two request handlers that send approach, and the scheduler

InitApproach == InitThreads({"cmd1", "cmd2", "bg"})

ApproachIds == {0, 1}

ApproachCommand ==
    \E t \in CommandThreads, id \in ApproachIds :
        process_command_begin(t, id, "approach", NearTrain)

NextApproach ==
    ApproachCommand \/ TransitionStep \/ CommandReturn \/ SchedulerStep

SpecApproach == InitApproach /\ [][NextApproach]_vars

-----------------------------------------------------------------------------
(* reset_system: the handler of POST /api/system/reset next to the         *)
(* scheduler threads and to the commands of other requests.  The global    *)
(* system names one RailwaySystem after the other; crossings, global_state *)
(* and statistics are those of the system it names now.  A scheduler       *)
(* thread reads the global system anew in every statement.  The loop over  *)
(* the crossings is one step: a loop that a reset overtakes goes on over   *)
(* the crossings of the system that is no longer named                     *)

\* cap on the calls of reset_system
MaxResets == 1

\* cap on statistics.total_operations of one system
MaxResetOps == 1

\* the scheduler threads: thread 0 is started at line 1196, thread k by the
\* k-th call of reset_system
Schedulers == 0..MaxResets

InitReset ==
    /\ crossings = InitialCrossings
    /\ global_state = InitialGlobalState
    /\ statistics = InitialStatistics
    /\ response = NoResponse
    /\ call = NoCall
    /\ threads =
          [reset |-> [pc |-> "idle", system |-> 0],
           bg |-> [k \in Schedulers |->
                     [pc |-> IF k = 0 THEN "loop" ELSE "unstarted",
                      system_health |-> 100, system |-> 0]]]

\* the try block up to the end of the for loop
background_task_loop(k) ==
    LET b == LoopBody(crossings, NoWearAll)
    IN /\ threads.bg[k].pc = "loop"
       /\ crossings' = b.cs
       /\ threads' = [threads EXCEPT
                        !.bg[k].pc = IF b.raised THEN "sleep" ELSE "health"]
       /\ UNCHANGED <<global_state, statistics, response, call>>

\* total_faults, sensor_health and the value of max(0, 100 - ...), computed
\* from the crossings of the system named now
background_task_health(k) ==
    /\ threads.bg[k].pc = "health"
    /\ threads' = [threads EXCEPT
                     !.bg[k].pc = "store",
                     !.bg[k].system_health = SystemHealth(crossings),
                     !.bg[k].system = threads.reset.system]
    /\ UNCHANGED <<crossings, global_state, statistics, response, call>>

\* system.global_state['system_health'] = the value computed: the target
\* is looked up after the value, in the system named now
background_task_store(k) ==
    /\ threads.bg[k].pc = "store"
    /\ global_state' = [global_state EXCEPT
                          !.system_health = threads.bg[k].system_health]
    /\ threads' = [threads EXCEPT !.bg[k].pc = "sleep"]
    /\ UNCHANGED <<crossings, statistics, response, call>>

\* time.sleep(1) of the scheduler threads: a second passes when every
\* running thread sleeps
background_task_wake ==
    /\ \A k \in Schedulers : threads.bg[k].pc \in {"sleep", "unstarted"}
    /\ crossings' = [c \in DOMAIN crossings |-> Sleep(crossings[c], 1)]
    /\ threads' = [threads EXCEPT
                     !.bg = [k \in Schedulers |->
                               IF @[k].pc = "sleep"
                               THEN [@[k] EXCEPT !.pc = "loop"]
                               ELSE @[k]]]
    /\ UNCHANGED <<global_state, statistics, response, call>>

\* system = RailwaySystem()
reset_system_rebuild ==
    /\ threads.reset.pc = "idle"
    /\ threads.reset.system < MaxResets
    /\ crossings' = InitialCrossings
    /\ global_state' = InitialGlobalState
    /\ statistics' = InitialStatistics
    /\ threads' = [threads EXCEPT !.reset.pc = "join", !.reset.system = @ + 1]
    /\ UNCHANGED <<response, call>>

\* bg_thread.join(timeout=1): the thread never ends, the join gives up
reset_system_join ==
    /\ threads.reset.pc = "join"
    /\ threads' = [threads EXCEPT !.reset.pc = "start"]
    /\ UNCHANGED <<crossings, global_state, statistics, response, call>>

\* bg_thread = threading.Thread(target=background_task); bg_thread.start()
reset_system_start ==
    /\ threads.reset.pc = "start"
    /\ threads' = [threads EXCEPT
                     !.reset.pc = "return",
                     !.bg[threads.reset.system].pc = "loop"]
    /\ UNCHANGED <<crossings, global_state, statistics, response, call>>

\* return jsonify({..., 'system_status': system.get_system_status()})
reset_system_return ==
    /\ threads.reset.pc = "return"
    /\ statistics' = [statistics EXCEPT
                        !.emergency_events = EmergencyEvents(crossings)]
    /\ response' = [success |-> TRUE, error |-> ""]
    /\ threads' = [threads EXCEPT !.reset.pc = "idle"]
    /\ UNCHANGED <<crossings, global_state, call>>

\* the commands of other requests while the system is reset
ResetCommands == {"approach", "inject_fault"}

ResetCommand ==
    /\ statistics.total_operations < MaxResetOps
    /\ \E id \in OperatedIds, command \in ResetCommands :
          process_command(id, command, NoParams, NoWearAll)

SchedulerThread ==
    \/ \E k \in Schedulers : background_task_loop(k)
    \/ \E k \in Schedulers : background_task_health(k)
    \/ \E k \in Schedulers : background_task_store(k)
    \/ background_task_wake

reset_system ==
    \/ reset_system_rebuild
    \/ reset_system_join
    \/ reset_system_start
    \/ reset_system_return

NextReset == ResetCommand \/ SchedulerThread \/ reset_system

SpecReset == InitReset /\ [][NextReset]_vars

-----------------------------------------------------------------------------
(* calculate_arrival_time of the two crossing classes: RailwayCrossing of  *)
(* src/api/server.py and CrossingFSM of src/core/fsm.py.  A time is a      *)
(* fraction num / den of seconds, or infinity; the quotient of the code is *)
(* kept as the fraction it divides                                         *)

\* float('inf')
Infinity == [inf |-> TRUE, num |-> 0, den |-> 1]

\* RailwayCrossing.calculate_arrival_time: speed_mps is
\* train_speed * 1000 / 3600, the result train_distance / speed_mps
calculate_arrival_time(cr) ==
    IF cr.train_speed <= 0 \/ cr.train_distance <= 0
    THEN Infinity
    ELSE IF cr.train_speed * 1000 <= 0
    THEN Infinity
    ELSE [inf |-> FALSE, num |-> cr.train_distance * 3600,
          den |-> cr.train_speed * 1000]

\* CrossingFSM.__init__ (config, _lock and _weather_multipliers apart)
NewCrossingFSM ==
    [current_state  |-> "IDLE",
     previous_state |-> "IDLE",
     weather        |-> "CLEAR",
     train_speed    |-> 0,
     train_distance |-> 0,
     arrival_time   |-> 0,
     sensor_health  |-> [s \in Sensors |-> TRUE],
     faults         |-> << >>,
     state_history  |-> << >>]

\* CrossingFSM.calculate_arrival_time
fsm_calculate_arrival_time(f) ==
    IF f.train_speed <= 0
    THEN Infinity
    ELSE IF f.train_speed * 1000 <= 0
    THEN Infinity
    ELSE [inf |-> FALSE, num |-> f.train_distance * 3600,
          den |-> f.train_speed * 1000]

\* train speeds in km/h and distances in m that a caller stores
ArrivalSpeeds == {-60, 0, 60, 100, 200}
ArrivalDistances == {-50, 0, 50, 200, 500}

\* one object of each class
InitArrival ==
    /\ crossings = [api |-> NewCrossing(0), fsm |-> NewCrossingFSM]
    /\ global_state = InitialGlobalState
    /\ statistics = InitialStatistics
    /\ response = NoResponse
    /\ call = [id |-> "none", ret |-> Infinity]
    /\ threads = NoThreads

\* the caller stores train_speed and train_distance in an object
SetTrain ==
    \E o \in DOMAIN crossings, speed \in ArrivalSpeeds,
       distance \in ArrivalDistances :
        /\ crossings' = [crossings EXCEPT ![o].train_speed = speed,
                                          ![o].train_distance = distance]
        /\ UNCHANGED <<global_state, statistics, response, call, threads>>

\* crossing.calculate_arrival_time() of the RailwayCrossing
ArrivalCall ==
    /\ call' = [id |-> "api", ret |-> calculate_arrival_time(crossings.api)]
    /\ UNCHANGED <<crossings, global_state, statistics, response, threads>>

\* fsm.calculate_arrival_time() of the CrossingFSM
FsmArrivalCall ==
    /\ call' = [id |-> "fsm", ret |-> fsm_calculate_arrival_time(crossings.fsm)]
    /\ UNCHANGED <<crossings, global_state, statistics, response, threads>>

NextArrival == SetTrain \/ ArrivalCall \/ FsmArrivalCall

SpecArrival == InitArrival /\ [][NextArrival]_vars

-----------------------------------------------------------------------------
(* CrossingFSM of src/core/fsm.py, used by asyncio tasks of one event      *)
(* loop.  A task runs without interruption from one await to the next: a   *)
(* step is the completion of an await with the code that follows it up to  *)
(* the next await.  crossings.fsm is the object; threads.tasks holds each  *)
(* task's position and the locals of its call, threads.lock the            *)
(* asyncio.Lock, threads.calls the number of calls made.                   *)

\* cap on the calls of transition
MaxFsmCalls == 3

\* the ten states of fsm.CrossingState
FsmCrossingState ==
    {"IDLE", "WARNING", "COUNTDOWN", "BARRIER_DOWN", "TRAIN_PASSING",
     "BARRIER_UP", "EMERGENCY", "MAINTENANCE", "CALIBRATION", "FAIL_SAFE"}

\* valid_transitions of CrossingFSM._is_valid_transition
fsm_valid_transitions ==
    [s \in FsmCrossingState |->
        CASE s = "IDLE" -> {"WARNING", "EMERGENCY", "MAINTENANCE", "CALIBRATION"}
          [] s = "WARNING"       -> {"COUNTDOWN", "IDLE", "EMERGENCY"}
          [] s = "COUNTDOWN"     -> {"BARRIER_DOWN", "EMERGENCY"}
          [] s = "BARRIER_DOWN"  -> {"TRAIN_PASSING", "EMERGENCY"}
          [] s = "TRAIN_PASSING" -> {"BARRIER_UP", "EMERGENCY"}
          [] s = "BARRIER_UP"    -> {"IDLE", "EMERGENCY"}
          [] s = "EMERGENCY"     -> {"IDLE", "FAIL_SAFE"}
          [] s = "MAINTENANCE"   -> {"IDLE"}
          [] s = "CALIBRATION"   -> {"IDLE"}
          [] s = "FAIL_SAFE"     -> {"IDLE"}]

\* a table that lets a passing train end in IDLE, as the seven-state table
\* of the API does
fsm_is_valid_transition_SevenStates(f, new_state) ==
    \/ new_state \in fsm_valid_transitions[f.current_state]
    \/ f.current_state = "TRAIN_PASSING" /\ new_state = "IDLE"

\* CrossingFSM._is_valid_transition
fsm_is_valid_transition(f, new_state) ==
    new_state \in fsm_valid_transitions[f.current_state]

\* _weather_multipliers of CrossingFSM, in tenths
fsm_weather_multipliers ==
    [w \in WeatherCondition |->
        CASE w = "CLEAR" -> 10
          [] w = "RAIN"  -> 13
          [] w = "FOG"   -> 15
          [] w = "STORM" -> 18]

\* CrossingFSM.get_adjusted_time: int(base_time * multiplier)
fsm_get_adjusted_time(f, base_time) ==
    (base_time * fsm_weather_multipliers[f.weather]) \div 10

\* countdown_time of CrossingConfig
countdown_time == 10

\* the tasks that call transition
Tasks == {1, 2}

\* a task that is not inside a call
IdleTask == [pc |-> "idle", new_state |-> "none", force |-> FALSE, i |-> 0]

\* an asyncio.Lock that nobody holds: holder 0, no waiter
FreeLock == [holder |-> 0, waiters |-> << >>]

\* Lock.release: the first waiter is woken and has the lock when it runs
Release(lock) ==
    IF lock.waiters = << >>
    THEN FreeLock
    ELSE [holder |-> Head(lock.waiters), waiters |-> Tail(lock.waiters)]

\* lines 90-102 of transition: previous_state, current_state and the entry
\* appended to state_history
fsm_record(f, new_state) ==
    [f EXCEPT !.previous_state = f.current_state,
              !.current_state = new_state,
              !.state_history =
                  Append(@, [from |-> f.current_state, to |-> new_state,
                             weather |-> f.weather,
                             train_speed |-> f.train_speed,
                             distance |-> f.train_distance])]

\* _on_state_entry: where the task waits after the entry action of state
\* has begun; "idle" when the state has no action and transition returns
EntryAwait(state) ==
    CASE state \in {"WARNING", "EMERGENCY", "FAIL_SAFE", "BARRIER_DOWN"}
            -> "sleep"
      [] state = "COUNTDOWN" -> "countdown"
      [] state = "TRAIN_PASSING" -> "monitor"
      [] OTHER -> "idle"

\* transition returns ret to task t, leaving the async with block
Return(t, ret) ==
    /\ threads' = [threads EXCEPT !.tasks[t] = IdleTask,
                                  !.lock = Release(threads.lock)]
    /\ call' = [id |-> t, from |-> "none", to |-> threads.tasks[t].new_state,
                ret |-> ret]

\* the body of transition for task t, which has the lock: the validity
\* check, the record and the entry action up to its first await
Body(t) ==
    LET self == threads.tasks[t]
        f == crossings.fsm
        f1 == fsm_record(f, self.new_state)
        await == EntryAwait(self.new_state)
    IN IF ~fsm_is_valid_transition(f, self.new_state) /\ ~self.force
       THEN /\ Return(t, FALSE)
            /\ UNCHANGED crossings
       ELSE /\ crossings' = [crossings EXCEPT !.fsm = f1]
            /\ IF await = "idle"
               THEN Return(t, TRUE)
               ELSE /\ threads' =
                         [threads EXCEPT
                            !.lock.holder = t,
                            !.tasks[t].pc = await,
                            !.tasks[t].i =
                               IF await = "countdown"
                               THEN fsm_get_adjusted_time(f1, countdown_time)
                               ELSE 0]
                    /\ UNCHANGED call

\* a task calls fsm.transition(new_state, force); the coroutine has not
\* run yet
fsm_transition_call(t, new_state, force) ==
    /\ threads.tasks[t].pc = "idle"
    /\ threads.calls < MaxFsmCalls
    /\ threads' = [threads EXCEPT
                     !.calls = @ + 1,
                     !.tasks[t] = [IdleTask EXCEPT !.pc = "acquire",
                                                   !.new_state = new_state,
                                                   !.force = force]]
    /\ UNCHANGED <<crossings, global_state, statistics, response, call>>

\* a transition that does not wait for the lock
fsm_transition_acquire_NoLock(t) ==
    /\ threads.tasks[t].pc = "acquire"
    /\ Body(t)
    /\ UNCHANGED <<global_state, statistics, response>>

\* async with self._lock: the lock is free and the body runs, or the task
\* joins the waiters
fsm_transition_acquire(t) ==
    /\ threads.tasks[t].pc = "acquire"
    /\ IF threads.lock = FreeLock
       THEN Body(t)
       ELSE /\ threads' = [threads EXCEPT
                             !.tasks[t].pc = "waiting",
                             !.lock.waiters = Append(@, t)]
            /\ UNCHANGED <<crossings, call>>
    /\ UNCHANGED <<global_state, statistics, response>>

\* a waiter that was woken runs the body
fsm_transition_resume(t) ==
    /\ threads.tasks[t].pc = "waiting"
    /\ threads.lock.holder = t
    /\ Body(t)
    /\ UNCHANGED <<global_state, statistics, response>>

\* the asyncio.sleep of _activate_warning, _lower_barriers,
\* _activate_emergency_protocol or _activate_fail_safe ends, and transition
\* returns True
fsm_entry_action_done(t) ==
    /\ threads.tasks[t].pc = "sleep"
    /\ Return(t, TRUE)
    /\ UNCHANGED <<crossings, global_state, statistics, response>>

\* _start_countdown: an asyncio.sleep(1) ends with i seconds of the range
\* still to go, this one included; the loop ends, or tests current_state
\* and breaks, or sleeps again
_start_countdown(t) ==
    LET self == threads.tasks[t]
    IN /\ self.pc = "countdown"
       /\ IF self.i = 1 \/ crossings.fsm.current_state # "COUNTDOWN"
          THEN Return(t, TRUE)
          ELSE /\ threads' = [threads EXCEPT !.tasks[t].i = @ - 1]
               /\ UNCHANGED call
       /\ UNCHANGED <<crossings, global_state, statistics, response>>

\* CrossingFSM._verify_train_passage
_verify_train_passage == TRUE

\* _monitor_train_passage: asyncio.sleep(5) ends; if the passage is
\* verified transition returns True, otherwise the task calls
\* transition(EMERGENCY, force=True) and, inside it, async with self._lock
\* on the lock that it holds: it joins the waiters of a lock that only it
\* can release
_monitor_train_passage(t, verified) ==
    /\ threads.tasks[t].pc = "monitor"
    /\ IF verified
       THEN Return(t, TRUE)
       ELSE /\ threads' = [threads EXCEPT
                             !.tasks[t].pc = "nested",
                             !.lock.waiters = Append(@, t)]
            /\ UNCHANGED call
    /\ UNCHANGED <<crossings, global_state, statistics, response>>

\* CrossingFSM(config) in the weather w, and the tasks before any call
InitFsm ==
    /\ \E w \in {"CLEAR", "STORM"} :
          crossings = [fsm |-> [NewCrossingFSM EXCEPT !.weather = w]]
    /\ global_state = InitialGlobalState
    /\ statistics = InitialStatistics
    /\ response = NoResponse
    /\ call = NoCall
    /\ threads = [tasks |-> [t \in Tasks |-> IdleTask], lock |-> FreeLock,
                  calls |-> 0]

\* the calls made: task 1 asks for any state, forced or not; task 2 asks
\* for any state without force
FsmCall ==
    \E t \in Tasks, new_state \in FsmCrossingState, force \in BOOLEAN :
        /\ force => t = 1
        /\ fsm_transition_call(t, new_state, force)

\* the steps of the tasks inside transition
FsmStep ==
    \/ \E t \in Tasks : fsm_transition_acquire(t)
    \/ \E t \in Tasks : fsm_transition_resume(t)
    \/ \E t \in Tasks : fsm_entry_action_done(t)
    \/ \E t \in Tasks : _start_countdown(t)

\* _monitor_train_passage as the code has it
FsmMonitor == \E t \in Tasks : _monitor_train_passage(t, _verify_train_passage)

NextFsm == FsmCall \/ FsmStep \/ FsmMonitor

SpecFsm == InitFsm /\ [][NextFsm]_vars

\* CrossingFSM with a _verify_train_passage that may return False

\* the states asked for, on the way of a train and in an emergency
VerifyTargets ==
    {"WARNING", "COUNTDOWN", "BARRIER_DOWN", "TRAIN_PASSING", "BARRIER_UP",
     "EMERGENCY"}

FsmVerifyCall ==
    \E t \in Tasks, new_state \in VerifyTargets, force \in BOOLEAN :
        /\ force => t = 1
        /\ fsm_transition_call(t, new_state, force)

\* _monitor_train_passage with either outcome of the verification
FsmMonitorMayFail ==
    \E t \in Tasks, verified \in BOOLEAN : _monitor_train_passage(t, verified)

NextFsmVerify == FsmVerifyCall \/ FsmStep \/ FsmMonitorMayFail

\* the event loop runs every task that can run
SpecFsmVerify ==
    InitFsm /\ [][NextFsmVerify]_vars /\ WF_vars(FsmStep \/ FsmMonitorMayFail)

-----------------------------------------------------------------------------
(* Claims *)

\* the table of the specification, written out
ClaimTable(s) ==
    CASE s = "IDLE"          -> {"WARNING", "EMERGENCY", "MAINTENANCE"}
      [] s = "WARNING"       -> {"COUNTDOWN", "IDLE", "EMERGENCY"}
      [] s = "COUNTDOWN"     -> {"BARRIER_DOWN", "EMERGENCY"}
      [] s = "BARRIER_DOWN"  -> {"TRAIN_PASSING", "EMERGENCY"}
      [] s = "TRAIN_PASSING" -> {"IDLE", "EMERGENCY"}
      [] s = "EMERGENCY"     -> {"IDLE"}
      [] s = "MAINTENANCE"   -> {"IDLE"}

\* a step of the scheduler: every command counts one operation, a tick none
IsTick == statistics' = statistics

\* C1: transition(t) called in state s returns True and sets state = t
\* exactly when t is in the table for s; when it returns False the crossing
\* (state, countdown, barrier, operation_count, state_history and every
\* other field) is as it was before the call.
C1_TransitionIffInTable ==
    [][ \A c \in DOMAIN crossings :
          (call'.id = c /\ call'.from = crossings[c].state) =>
             /\ call'.ret = (call'.to \in ClaimTable(crossings[c].state))
             /\ call'.ret =>
                   /\ crossings'[c].state = call'.to
                   /\ crossings'[c].operation_count =
                         crossings[c].operation_count + 1
             /\ ~call'.ret => crossings'[c] = crossings[c] ]_vars

\* C1 witness: a call was rejected on a crossing that has made transitions
C1_Witness ==
    /\ call.id = 0
    /\ ~call.ret
    /\ call.from = "MAINTENANCE"
    /\ call.to = "EMERGENCY"
    /\ crossings[0].operation_count > 0

\* C2: after every command and every tick the barrier is DOWN exactly in
\* BARRIER_DOWN and TRAIN_PASSING, and UP in the five other states.
C2_BarrierMatchesState ==
    \A c \in DOMAIN crossings :
        /\ crossings[c].barrier \in {"UP", "DOWN"}
        /\ crossings[c].barrier = "DOWN" <=>
              crossings[c].state \in {"BARRIER_DOWN", "TRAIN_PASSING"}

\* C2 witness: a barrier is down while the train is still on its way
C2_Witness ==
    \E c \in DOMAIN crossings :
        /\ crossings[c].state = "TRAIN_PASSING"
        /\ crossings[c].barrier = "DOWN"
        /\ crossings[c].train_position < 100

\* the last n entries of a crossing's history, as <<from, to>> pairs
LastMoves(cr, n) ==
    LET h == cr.state_history
    IN IF Len(h) < n THEN << >>
       ELSE [i \in 1..n |-> <<h[Len(h) - n + i].from, h[Len(h) - n + i].to>>]

\* C4: the warning phase is never skipped.  A crossing enters BARRIER_DOWN
\* only from COUNTDOWN, COUNTDOWN only from WARNING and TRAIN_PASSING only
\* from BARRIER_DOWN, and a crossing that lowers its barrier has gone
\* IDLE -> WARNING -> COUNTDOWN -> BARRIER_DOWN.
C4_WarningNeverSkipped ==
    [][ \A c \in DOMAIN crossings :
          crossings'[c].state # crossings[c].state =>
             /\ crossings'[c].state = "BARRIER_DOWN" =>
                   /\ crossings[c].state = "COUNTDOWN"
                   /\ LastMoves(crossings'[c], 3) =
                         << <<"IDLE", "WARNING">>, <<"WARNING", "COUNTDOWN">>,
                            <<"COUNTDOWN", "BARRIER_DOWN">> >>
             /\ crossings'[c].state = "COUNTDOWN" =>
                   crossings[c].state = "WARNING"
             /\ crossings'[c].state = "TRAIN_PASSING" =>
                   crossings[c].state = "BARRIER_DOWN" ]_vars

\* C4 witness: a crossing has gone all the way to TRAIN_PASSING
C4_Witness ==
    \E c \in DOMAIN crossings :
        /\ crossings[c].state = "TRAIN_PASSING"
        /\ Len(crossings[c].state_history) >= 4

\* C9: a tick takes a crossing from COUNTDOWN to BARRIER_DOWN only when the
\* countdown it recomputes, max(0, adjusted time - seconds in COUNTDOWN),
\* is exactly 0.
C9_SchedulerGuard ==
    [][ IsTick =>
          \A c \in DOMAIN crossings :
             (crossings[c].state = "COUNTDOWN"
                 /\ crossings'[c].state = "BARRIER_DOWN") =>
                Max(0, (10 * weather_multipliers[crossings[c].weather]) \div 10
                          - crossings[c].time_in_state) = 0 ]_vars

\* C9 witness: the scheduler has lowered the barrier of a crossing in a
\* storm, where the countdown runs for 18 s
C9_Witness ==
    \E c \in DOMAIN crossings :
        /\ crossings[c].state = "BARRIER_DOWN"
        /\ crossings[c].countdown = 0
        /\ crossings[c].weather = "STORM"

\* C3 as claimed: a crossing goes from TRAIN_PASSING to IDLE only when its
\* train_position is >= 100 at that step (for a tick, after the position
\* update the tick starts with).
C3_NeverOpenWhileTrainPresent ==
    [][ \A c \in DOMAIN crossings :
          (crossings[c].state = "TRAIN_PASSING"
              /\ crossings'[c].state = "IDLE") =>
             \/ crossings[c].train_position >= 100
             \/ IsTick /\ UpdatePosition(crossings[c]).train_position >= 100
      ]_vars

\* C5 as claimed: the emergency command that sets the flag leaves every
\* crossing in EMERGENCY with barrier UP and train_position = -100.
C5_EmergencyActivation ==
    [][ (~global_state.emergency /\ global_state'.emergency) =>
          \A c \in DOMAIN crossings :
             /\ crossings'[c].state = "EMERGENCY"
             /\ crossings'[c].barrier = "UP"
             /\ crossings'[c].train_position = -100 ]_vars

\* C6 as claimed: the emergency command that clears the flag leaves every
\* crossing in IDLE.
C6_EmergencyClearing ==
    [][ (global_state.emergency /\ ~global_state'.emergency) =>
          \A c \in DOMAIN crossings : crossings'[c].state = "IDLE" ]_vars

\* C10 as claimed: a command that reports success = false leaves the
\* crossing entirely unchanged.
C10_NoPartialSuccess ==
    [][ (statistics'.failed_transitions = statistics.failed_transitions + 1
            /\ ~response'.success) =>
          crossings' = crossings ]_vars

\* every entry of every state_history is a pair of the table
HistoryInTable ==
    \A c \in DOMAIN crossings :
        \A i \in 1..Len(crossings[c].state_history) :
            crossings[c].state_history[i].to
                \in ClaimTable(crossings[c].state_history[i].from)

\* no thread is inside transition or process_command
Quiescent ==
    \A t \in DOMAIN threads : threads[t].pc \in {"idle", "loop", "health"}

\* C7 as claimed: a command thread's transition and the scheduler's
\* auto-advance exclude each other on a crossing, so that every entry of
\* state_history is a pair of the table and, once both have finished, the
\* barrier matches the state.
C7_MutualExclusion ==
    /\ HistoryInTable
    /\ Quiescent =>
          \A c \in DOMAIN crossings :
              crossings[c].barrier = "DOWN" <=>
                 crossings[c].state \in {"BARRIER_DOWN", "TRAIN_PASSING"}

\* the pairs (from, to) that are absent from the table
AbsentFromTable ==
    {p \in CrossingState \X CrossingState : p[2] \notin ClaimTable(p[1])}

\* C8 as claimed: however concurrently issued approach commands interleave
\* with each other and with the scheduler, no state_history has an entry
\* that is absent from the table (such as WARNING -> WARNING).
C8_ApproachHistoryInTable ==
    \A c \in DOMAIN crossings :
        \A i \in 1..Len(crossings[c].state_history) :
            <<crossings[c].state_history[i].from,
              crossings[c].state_history[i].to>> \notin AbsentFromTable

\* C11: process_command with a crossing id out of range returns a failure
\* with an error and changes nothing: crossings, global_state and
\* statistics are as before the call.
C11_InvalidCrossingId ==
    [][ \A id \in FaultIds \ DOMAIN crossings, command \in FaultCommands,
           params \in FaultParams :
          process_command(id, command, params, NoWearAll) =>
             /\ ~response'.success
             /\ response'.error # ""
             /\ UNCHANGED <<crossings, global_state, statistics>> ]_vars

\* C11 witness: an id out of range was rejected by a system that has
\* processed commands and holds a fault
C11_Witness ==
    /\ response = [success |-> FALSE, error |-> "Invalid crossing ID"]
    /\ statistics.total_operations > 0
    /\ crossings[0].faults # << >>

\* C12: process_command with a valid id and a command name that is not one
\* of the nine returns a failure with an error (it does not raise) and
\* leaves every crossing unchanged.
C12_UnknownCommand ==
    [][ \A id \in FaultIds \cap DOMAIN crossings,
           command \in FaultCommands \ Commands, params \in FaultParams :
          process_command(id, command, params, NoWearAll) =>
             /\ ~response'.success
             /\ response'.error # ""
             /\ crossings' = crossings ]_vars

\* C12 witness: an unknown command was rejected on a crossing that is under
\* maintenance and holds a fault
C12_Witness ==
    /\ response = [success |-> FALSE, error |-> "Unknown command"]
    /\ crossings[0].state = "MAINTENANCE"
    /\ crossings[0].faults # << >>

\* C13 as claimed: every process_command call with a valid id and one of the
\* nine commands adds 1 to total_operations and 1 to successful_transitions
\* when the result's success is true, to failed_transitions when it is
\* false; total_operations = successful_transitions + failed_transitions.
C13_StatisticsCountEveryCommand ==
    /\ [](statistics.total_operations =
             statistics.successful_transitions + statistics.failed_transitions)
    /\ [][ \A id \in FaultIds \cap DOMAIN crossings,
              command \in FaultCommands \cap Commands, params \in FaultParams :
             process_command(id, command, params, NoWearAll) =>
                /\ statistics'.total_operations =
                      statistics.total_operations + 1
                /\ statistics'.successful_transitions =
                      statistics.successful_transitions
                         + (IF response'.success THEN 1 ELSE 0)
                /\ statistics'.failed_transitions =
                      statistics.failed_transitions
                         + (IF response'.success THEN 0 ELSE 1) ]_vars

\* C14 as claimed: after clear_faults the crossing has no faults and its
\* sensor_health maps ir, ultrasonic, vibration and rfid to healthy, and a
\* second clear_faults leaves the crossing as the first one left it.
C14_ClearFaultsTotal ==
    [][ \A id \in FaultIds \cap DOMAIN crossings,
           params \in {q \in FaultParams : ~IsMalformed(q)} :
          process_command(id, "clear_faults", params, NoWearAll) =>
             /\ crossings'[id].faults = << >>
             /\ crossings'[id].sensor_health = [k \in Sensors |-> TRUE]
             /\ ClearFaults(crossings'[id]) = crossings'[id] ]_vars

\* round(10 * multiplier) for each weather, as the specification lists it
ClaimCountdown(w) ==
    CASE w = "CLEAR" -> 10
      [] w = "RAIN"  -> 13
      [] w = "FOG"   -> 15
      [] w = "STORM" -> 18

\* C15: right after a crossing enters COUNTDOWN its countdown is 10 under
\* CLEAR, 13 under RAIN, 15 under FOG and 18 under STORM, whatever the
\* countdown was before.
C15_CountdownByWeather ==
    [][ \A c \in DOMAIN crossings :
          (crossings[c].state # "COUNTDOWN"
              /\ crossings'[c].state = "COUNTDOWN") =>
             crossings'[c].countdown = ClaimCountdown(crossings'[c].weather)
      ]_vars

\* C15 witness: a crossing that entered WARNING under CLEAR (countdown 10)
\* and had its weather changed to RAIN has entered COUNTDOWN with 13
C15_Witness ==
    \E c \in DOMAIN crossings :
        /\ crossings[c].state = "COUNTDOWN"
        /\ crossings[c].time_in_state = 0
        /\ crossings[c].weather = "RAIN"
        /\ crossings[c].countdown = 13
        /\ crossings[c].state_history[1].weather = "CLEAR"

\* C16: the health of every component of every crossing is never below 50,
\* never above 100 and never increases, whatever wear each transition
\* draws.
C16_ComponentHealthBounded ==
    /\ [](\A c \in DOMAIN crossings, k \in Components :
             /\ crossings[c].component_health[k] >= 50
             /\ crossings[c].component_health[k] <= 100)
    /\ [][ \A c \in DOMAIN crossings, k \in Components :
             crossings'[c].component_health[k]
                <= crossings[c].component_health[k] ]_vars

\* C16 witness: the barrier motor is at its floor after more transitions
\* than it takes to wear it down
C16_Witness ==
    /\ crossings[0].component_health["barrier_motor"] = 50
    /\ crossings[0].operation_count > 17

\* the last 10 entries of a history
Last10(h) == IF Len(h) > 10 THEN SubSeq(h, Len(h) - 9, Len(h)) ELSE h

\* C17: after every call of transition state_history has at most 10
\* entries; a successful call appends its entry and keeps the 10 most
\* recent in their order, a failed call adds nothing.
C17_HistoryKeepsLastTen ==
    [][ \A c \in DOMAIN crossings :
          call'.id = c =>
             /\ Len(crossings'[c].state_history) <= 10
             /\ crossings'[c].state_history =
                   IF call'.ret
                   THEN Last10(Append(crossings[c].state_history,
                                      [from |-> crossings[c].state,
                                       to |-> call'.to,
                                       weather |-> crossings[c].weather]))
                   ELSE crossings[c].state_history ]_vars

\* C17 witness: a full history has lost its oldest entries, and the last
\* call, a failed one, left it as it was
C17_Witness ==
    /\ Len(crossings[0].state_history) = 10
    /\ crossings[0].operation_count > 12
    /\ call.id = 0
    /\ ~call.ret

\* the crossings that a step takes into EMERGENCY
EnterEmergency ==
    {c \in DOMAIN crossings :
        /\ crossings'[c].state = "EMERGENCY"
        /\ crossings[c].state # "EMERGENCY"}

\* C18: the emergency_events statistic is the number of successful
\* transitions into EMERGENCY of all crossings since the system was
\* created: every step raises the count by the number of crossings it
\* takes into EMERGENCY, and the statistic reported never decreases.
C18_EmergencyEventsTotal ==
    [][ /\ EmergencyEvents(crossings') =
              EmergencyEvents(crossings) + Cardinality(EnterEmergency)
        /\ statistics'.emergency_events >= statistics.emergency_events ]_vars

\* C19: a crossing on which the loop of the scheduler raises does not keep
\* the other crossings from being processed: in every tick each crossing
\* that does not raise itself gets its position update and its
\* auto-advance, also when it comes after the one that raises.
C19_SchedulerFaultIsolation ==
    [][ IsTick =>
          \A c \in DOMAIN crossings :
             ~TickRaises(crossings[c]) =>
                crossings'[c] =
                   Sleep(AutoAdvance(UpdatePosition(crossings[c]), NoWear), 1)
      ]_vars

\* a crossing as reset_system is said to leave it
Rebuilt(cr) ==
    /\ cr.state = "IDLE"
    /\ cr.barrier = "UP"
    /\ cr.train_position = -100
    /\ cr.countdown = 10
    /\ cr.faults = << >>
    /\ \A k \in DOMAIN cr.sensor_health : cr.sensor_health[k]
    /\ cr.state_history = << >>
    /\ cr.operation_count = 0

\* C20: reset_system rebuilds the system atomically: when it returns every
\* crossing is IDLE with the barrier UP, position -100, countdown 10, no
\* faults, healthy sensors, an empty history and operation_count 0, the
\* emergency flag is off and the counters are 0; and a scheduler tick never
\* mixes two systems: the system health it stores into a system that it did
\* not compute it from is the health of the crossings of that system.
C20_ResetAtomic ==
    [][ /\ (threads.reset.pc = "return" /\ threads'.reset.pc = "idle") =>
              /\ \A c \in DOMAIN crossings' : Rebuilt(crossings'[c])
              /\ ~global_state'.emergency
              /\ statistics' = InitialStatistics
        /\ \A k \in Schedulers :
              (threads.bg[k].pc = "store" /\ threads'.bg[k].pc = "sleep") =>
                 \/ threads.bg[k].system = threads.reset.system
                 \/ threads.bg[k].system_health = SystemHealth(crossings)
      ]_vars

\* the arrival time that the specification gives for a speed in km/h and a
\* distance in m
ClaimArrival(o, ret) ==
    IF o.train_speed <= 0 \/ o.train_distance <= 0
    THEN ret.inf
    ELSE /\ ~ret.inf
         /\ ret.num * o.train_speed * 10 = o.train_distance * 36 * ret.den
         /\ (o.train_speed = 100 /\ o.train_distance = 500) =>
               ret.num = 18 * ret.den

\* C21: calculate_arrival_time returns infinity when train_speed <= 0 or
\* train_distance <= 0 and distance / (speed * 1000 / 3600) seconds
\* otherwise (18 s for 100 km/h and 500 m), for the RailwayCrossing and for
\* the CrossingFSM alike.
C21_ArrivalTime ==
    [][ \A o \in DOMAIN crossings :
          (call'.id = o /\ UNCHANGED crossings) =>
             ClaimArrival(crossings[o], call'.ret) ]_vars

\* C22: countdown is never negative, and a tick that finds a crossing in
\* COUNTDOWN leaves its countdown at max(0, round(10 * multiplier of its
\* weather) - whole seconds since it entered COUNTDOWN), whatever the
\* countdown was before.
C22_CountdownRederived ==
    /\ [](\A c \in DOMAIN crossings : crossings[c].countdown >= 0)
    /\ [][ IsTick =>
             \A c \in DOMAIN crossings :
                crossings[c].state = "COUNTDOWN" =>
                   crossings'[c].countdown =
                      Max(0, ClaimCountdown(crossings[c].weather)
                                - crossings[c].time_in_state) ]_vars

\* C22 witness: a crossing that entered COUNTDOWN under CLEAR with a
\* countdown of 10 and whose weather became STORM since: the tick 11 s
\* after the entry left the countdown at 18 - 11
C22_Witness ==
    /\ crossings[0].state = "COUNTDOWN"
    /\ crossings[0].state_history[Len(crossings[0].state_history)].weather
          = "CLEAR"
    /\ crossings[0].weather = "STORM"
    /\ crossings[0].time_in_state = 12
    /\ crossings[0].countdown = 7

\* C23: train_position of every crossing stays within -100..150 in every
\* state reached through commands and ticks, and no tick moves it above
\* 100.
C23_PositionRange ==
    /\ [](\A c \in DOMAIN crossings :
             /\ crossings[c].train_position >= -100
             /\ crossings[c].train_position <= 150)
    /\ [][ IsTick =>
             \A c \in DOMAIN crossings :
                crossings'[c].train_position > 100 =>
                   crossings'[c].train_position = crossings[c].train_position
       ]_vars

\* C23 witness: a train of 60 km/h, moved by 3 per tick from 0, stands at
\* 100 and not at 102; no train_pass command has put it there
C23_Witness ==
    /\ crossings[0].train_speed = 60
    /\ crossings[0].train_position = 100
    /\ crossings[0].state = "TRAIN_PASSING"
    /\ global_state.total_trains = 0

\* C24: with the scheduler ticking and no further commands, a crossing that
\* an approach command has taken into WARNING, whatever its parameters, is
\* advanced to COUNTDOWN in the end and so lowers its barrier in the end.
C24_WarningAutoAdvances ==
    \A c \in OperatedIds :
       (crossings[c].state = "WARNING" /\ NoFurtherCommands)
          ~> (crossings[c].barrier = "DOWN")

\* the order in which the scheduler takes a crossing through its cycle
CycleOrder ==
    {<<"COUNTDOWN", "BARRIER_DOWN">>, <<"BARRIER_DOWN", "TRAIN_PASSING">>,
     <<"TRAIN_PASSING", "IDLE">>}

\* C25: with the scheduler ticking, no further commands and a numeric
\* train_speed, a crossing in COUNTDOWN, BARRIER_DOWN or TRAIN_PASSING
\* returns to IDLE with the barrier UP and train_position -100 in the end,
\* and the ticks take it there in the order COUNTDOWN, BARRIER_DOWN,
\* TRAIN_PASSING, IDLE.
C25_CycleCompletes ==
    /\ \A c \in OperatedIds :
          (/\ crossings[c].state
                 \in {"COUNTDOWN", "BARRIER_DOWN", "TRAIN_PASSING"}
           /\ NoFurtherCommands)
             ~> (/\ crossings[c].state = "IDLE"
                 /\ crossings[c].barrier = "UP"
                 /\ crossings[c].train_position = -100)
    /\ [][ IsTick =>
             \A c \in DOMAIN crossings :
                (/\ crossings[c].state
                       \in {"COUNTDOWN", "BARRIER_DOWN", "TRAIN_PASSING"}
                 /\ crossings'[c].state # crossings[c].state)
                   => <<crossings[c].state, crossings'[c].state>> \in CycleOrder
       ]_vars

\* C25 witness: after the last command, sent while the crossing was in
\* WARNING without parameters, the ticks have taken the crossing from
\* COUNTDOWN through BARRIER_DOWN and TRAIN_PASSING back to IDLE
C25_Witness ==
    /\ NoFurtherCommands
    /\ crossings[0].state = "IDLE"
    /\ crossings[0].barrier = "UP"
    /\ crossings[0].train_position = -100
    /\ crossings[0].train_speed = 0
    /\ Len(crossings[0].state_history) = 5
    /\ crossings[0].state_history[2].to = "COUNTDOWN"
    /\ crossings[0].state_history[5].from = "TRAIN_PASSING"

\* clamp(5 * train_speed / 100, 2, 10), the advance of a train per tick as
\* the specification gives it
ClaimAdvance(train_speed) ==
    IF 5 * train_speed < 2 * 100 THEN 2
    ELSE IF 5 * train_speed > 10 * 100 THEN 10
    ELSE (5 * train_speed) \div 100

\* the train_position that the auto-advance of a tick finds: the position
\* update of the same tick comes first
ClaimPositionInTick(cr) ==
    IF cr.state \in {"WARNING", "COUNTDOWN", "BARRIER_DOWN", "TRAIN_PASSING"}
       /\ cr.train_position < 100
    THEN cr.train_position + ClaimAdvance(cr.train_speed)
    ELSE cr.train_position

\* C26: a tick takes a crossing from TRAIN_PASSING to IDLE only when it has
\* been in TRAIN_PASSING for 3 s or more and its train_position is 100 or
\* more, and leaves its train_position at -100; a tick sets a
\* train_position to -100 only for a crossing that it takes into IDLE.
C26_TrainPassingToIdle ==
    [][ IsTick =>
          \A c \in DOMAIN crossings :
             /\ (/\ crossings[c].state = "TRAIN_PASSING"
                 /\ crossings'[c].state = "IDLE")
                   => /\ crossings[c].time_in_state >= 3
                      /\ ClaimPositionInTick(crossings[c]) >= 100
                      /\ crossings'[c].train_position = -100
             /\ (/\ crossings'[c].train_position = -100
                 /\ crossings[c].train_position # -100)
                   => /\ crossings[c].state = "TRAIN_PASSING"
                      /\ crossings'[c].state = "IDLE" ]_vars

\* C26 witness: the slow train (2 per tick) kept its crossing in
\* TRAIN_PASSING for longer than 3 s, until it stood at 100, and a tick
\* has then taken the crossing to IDLE
C26_Witness ==
    /\ crossings[0].state = "IDLE"
    /\ crossings[0].train_position = -100
    /\ crossings[0].train_speed = 20
    /\ global_state.total_trains = 0
    /\ Len(crossings[0].state_history) = 5
    /\ crossings[0].state_history[5].from = "TRAIN_PASSING"

\* a tick moves the train of crossing c: the crossing is in one of the four
\* states with a train and the train is short of 100
TrainMoves(cr) ==
    /\ cr.state \in {"WARNING", "COUNTDOWN", "BARRIER_DOWN", "TRAIN_PASSING"}
    /\ cr.train_position < 100

\* the tick has taken the crossing from TRAIN_PASSING to IDLE, which sets
\* train_position to -100 after the position update
TickEnteredIdle(c) ==
    /\ crossings[c].state = "TRAIN_PASSING"
    /\ crossings'[c].state = "IDLE"

\* C27 as stated: a tick advances the train_position of a crossing in
\* WARNING, COUNTDOWN, BARRIER_DOWN or TRAIN_PASSING with train_position
\* < 100 by exactly clamp(5 * train_speed / 100, 2, 10), and the position
\* update leaves every other train_position unchanged.
C27_PositionAdvanceExact ==
    [][ IsTick =>
          \A c \in DOMAIN crossings :
             ~TickEnteredIdle(c) =>
                crossings'[c].train_position =
                   IF TrainMoves(crossings[c])
                   THEN crossings[c].train_position
                           + ClaimAdvance(crossings[c].train_speed)
                   ELSE crossings[c].train_position ]_vars

\* C27 amended: the advance stops at 100.  A tick sets the train_position
\* of a crossing in WARNING, COUNTDOWN, BARRIER_DOWN or TRAIN_PASSING with
\* train_position < 100 to min(100, train_position + clamp(5 * train_speed
\* / 100, 2, 10)), and the position update leaves every other
\* train_position unchanged.
C27_PositionAdvanceCapped ==
    [][ IsTick =>
          \A c \in DOMAIN crossings :
             ~TickEnteredIdle(c) =>
                crossings'[c].train_position =
                   IF TrainMoves(crossings[c])
                   THEN Min(100, crossings[c].train_position
                                    + ClaimAdvance(crossings[c].train_speed))
                   ELSE crossings[c].train_position ]_vars

\* C27 witness: the train of 60 km/h, which moves 3 per tick from 0, stands
\* at 100 in a crossing that no train_pass command has touched: its last
\* advance was from 99
C27_Witness ==
    /\ crossings[0].state \in {"WARNING", "COUNTDOWN", "BARRIER_DOWN",
                               "TRAIN_PASSING"}
    /\ crossings[0].train_speed = 60
    /\ crossings[0].train_position = 100
    /\ global_state.total_trains = 0

\* C28: a successful transition leaves train_position, train_speed,
\* train_distance, weather, faults and sensor_health as they were, except
\* that a transition into EMERGENCY sets train_position to -100; a
\* transition into IDLE keeps the train_position it finds.
C28_TransitionKeepsTrain ==
    [][ call'.ret =>
          \A c \in DOMAIN crossings :
             /\ crossings'[c].train_position =
                   IF call'.id = c /\ call'.to = "EMERGENCY"
                   THEN -100
                   ELSE crossings[c].train_position
             /\ crossings'[c].train_speed = crossings[c].train_speed
             /\ crossings'[c].train_distance = crossings[c].train_distance
             /\ crossings'[c].weather = crossings[c].weather
             /\ crossings'[c].faults = crossings[c].faults
             /\ crossings'[c].sensor_health = crossings[c].sensor_health ]_vars

\* C28 witness: a successful transition into IDLE has left the train at
\* 100 with its speed, and the injected fault in place
C28_Witness ==
    /\ call.ret
    /\ call.to = "IDLE"
    /\ crossings[0].state = "IDLE"
    /\ crossings[0].train_position = 100
    /\ crossings[0].train_speed = 100
    /\ crossings[0].weather = "STORM"
    /\ crossings[0].faults = <<"IR_SENSOR_FAULT">>
    /\ ~crossings[0].sensor_health["ir"]

\* the scheduler threads that have been started; none of them ever ends
ActiveSchedulers == {k \in Schedulers : threads.bg[k].pc # "unstarted"}

\* C29: exactly one scheduler loop is active at any time, whatever number
\* of reset_system calls has been made.
C29_OneScheduler == Cardinality(ActiveSchedulers) = 1

\* the codes of faults without their repetitions
FaultSet(cr) == {cr.faults[i] : i \in 1..Len(cr.faults)}

\* C30: through inject_fault and clear_faults, sensor ir is unhealthy iff
\* IR_SENSOR_FAULT is in faults and sensor vibration is unhealthy iff
\* VIBRATION_SENSOR_FAULT is in faults; faults holds one copy of a code
\* however often its fault type is injected; and an inject_fault with a
\* fault_type that is not recognised changes neither faults nor
\* sensor_health.
C30_FaultsConsistent ==
    /\ [](\A c \in DOMAIN crossings :
            /\ ~crossings[c].sensor_health["ir"]
                  <=> "IR_SENSOR_FAULT" \in FaultSet(crossings[c])
            /\ ~crossings[c].sensor_health["vibration"]
                  <=> "VIBRATION_SENSOR_FAULT" \in FaultSet(crossings[c])
            /\ Len(crossings[c].faults) = Cardinality(FaultSet(crossings[c])))
    /\ [][ \A id \in OperatedIds :
             process_command(id, "inject_fault", UnknownFault, NoWearAll)
                => /\ crossings'[id].faults = crossings[id].faults
                   /\ crossings'[id].sensor_health
                         = crossings[id].sensor_health ]_vars

\* the countdown of crossing c immediately before the transition of this
\* step: a command calls transition on the countdown it finds; a tick
\* recomputes the countdown first, and a transition into BARRIER_DOWN
\* leaves the countdown as it is
CountdownAtTransition(c) ==
    IF IsTick THEN crossings'[c].countdown ELSE crossings[c].countdown

\* C31: every step, barrier_down command or tick, that takes a crossing
\* from COUNTDOWN to BARRIER_DOWN finds its countdown at 0.
C31_BarrierDownAtZero ==
    [][ \A c \in DOMAIN crossings :
          (/\ crossings[c].state = "COUNTDOWN"
           /\ crossings'[c].state = "BARRIER_DOWN")
             => CountdownAtTransition(c) = 0 ]_vars

\* C32: while the process-wide emergency flag is set, every crossing is in
\* EMERGENCY.
C32_EmergencyHoldsAll ==
    global_state.emergency
       => \A c \in DOMAIN crossings : crossings[c].state = "EMERGENCY"

\* C33: after every command and every tick, a crossing in IDLE has
\* train_position -100.
C33_IdleShowsNoTrain ==
    \A c \in DOMAIN crossings :
       crossings[c].state = "IDLE" => crossings[c].train_position = -100

\* C34: while a crossing stays in COUNTDOWN, no command and no tick raises
\* its countdown.
C34_CountdownNeverIncreases ==
    [][ \A c \in DOMAIN crossings :
          (/\ crossings[c].state = "COUNTDOWN"
           /\ crossings'[c].state = "COUNTDOWN")
             => crossings'[c].countdown <= crossings[c].countdown ]_vars

\* the step in which the body of task t's transition runs: the task had
\* called, or waited for the lock, and no longer does
BodyRuns(t) ==
    /\ threads.tasks[t].pc \in {"acquire", "waiting"}
    /\ threads'.tasks[t].pc \notin {"acquire", "waiting"}

\* the last entry of state_history is (from, to)
LastEntryIs(f, from, to) ==
    /\ f.state_history # << >>
    /\ f.state_history[Len(f.state_history)].from = from
    /\ f.state_history[Len(f.state_history)].to = to

\* C35: CrossingFSM.transition(new_state) without force changes
\* current_state if and only if new_state is in the ten-state table for
\* current_state (TRAIN_PASSING only to BARRIER_UP or EMERGENCY, BARRIER_UP
\* only to IDLE or EMERGENCY, EMERGENCY only to IDLE or FAIL_SAFE); a
\* rejected call returns False and leaves current_state, previous_state and
\* state_history unchanged; a call with force is always applied and
\* recorded.
C35_FsmTransitionIffInTable ==
    [][ \A t \in Tasks :
          BodyRuns(t) =>
            LET self == threads.tasks[t]
                f == crossings.fsm
                g == crossings'.fsm
                in_table ==
                    CASE f.current_state = "TRAIN_PASSING" ->
                            self.new_state \in {"BARRIER_UP", "EMERGENCY"}
                      [] f.current_state = "BARRIER_UP" ->
                            self.new_state \in {"IDLE", "EMERGENCY"}
                      [] f.current_state = "EMERGENCY" ->
                            self.new_state \in {"IDLE", "FAIL_SAFE"}
                      [] OTHER ->
                            self.new_state
                               \in fsm_valid_transitions[f.current_state]
            IN /\ ~self.force =>
                    (g.current_state # f.current_state <=> in_table)
               /\ (~self.force /\ ~in_table) =>
                    /\ call' = [id |-> t, from |-> "none",
                                to |-> self.new_state, ret |-> FALSE]
                    /\ g.current_state = f.current_state
                    /\ g.previous_state = f.previous_state
                    /\ g.state_history = f.state_history
               /\ (self.force \/ in_table) =>
                    /\ g.current_state = self.new_state
                    /\ g.previous_state = f.current_state
                    /\ Len(g.state_history) = Len(f.state_history) + 1
                    /\ LastEntryIs(g, f.current_state, self.new_state) ]_vars

\* C35 witness: a forced call has taken the machine from IDLE to
\* BARRIER_UP, which the table does not allow, and recorded it; a call for
\* TRAIN_PASSING without force has then returned False
C35_Witness ==
    /\ crossings.fsm.current_state = "BARRIER_UP"
    /\ crossings.fsm.previous_state = "IDLE"
    /\ Len(crossings.fsm.state_history) = 1
    /\ LastEntryIs(crossings.fsm, "IDLE", "BARRIER_UP")
    /\ call.id \in Tasks
    /\ call.to = "TRAIN_PASSING"
    /\ ~call.ret

\* state_history is a chain that ends in the state of the machine
HistoryChain(f) ==
    LET h == f.state_history
    IN /\ \A k \in 1..(Len(h) - 1) : h[k].to = h[k + 1].from
       /\ h # << >> => /\ h[Len(h)].to = f.current_state
                       /\ h[Len(h)].from = f.previous_state

\* the tasks inside the async with block of transition
InsideLock == {t \in Tasks : threads.tasks[t].pc \in {"sleep", "countdown", "monitor"}}

C37_FsmNoCallBlocksForever ==
    \A t \in Tasks :
       /\ (threads.tasks[t].pc = "nested")
             ~> (crossings.fsm.current_state = "EMERGENCY")
       /\ (threads.tasks[t].pc # "idle") ~> (threads.tasks[t].pc = "idle")

\* a transition to EMERGENCY has been requested and has not taken effect
EmergencyRequested ==
    \E u \in Tasks : /\ threads.tasks[u].pc = "waiting"
                     /\ threads.tasks[u].new_state = "EMERGENCY"

\* C38: a transition to EMERGENCY requested by another task while the
\* countdown runs takes effect before the full weather-adjusted countdown
\* time has elapsed: the countdown never runs to the end of its last
\* second with such a request still waiting.
C38_FsmCountdownCutShort ==
    [][ \A t \in Tasks :
          (/\ threads.tasks[t].pc = "countdown"
           /\ threads.tasks[t].i = 1
           /\ threads'.tasks[t].pc = "idle")
             => ~EmergencyRequested ]_vars

====
